---- MODULE Spec2Model ----
(***************************************************************************)
(* A model of the DST reconciliation scheduler of project-timezone:        *)
(* DSTService (start / stop / checkDSTChanges / checkTimezoneForDST /      *)
(* updateUsersForDSTChanges) together with the queries of DatabaseService  *)
(* it reads.  Time is counted in whole hours of UTC; one Tick is one hour  *)
(* boundary of the wall clock.  A sweep (one checkDSTChanges call) is an   *)
(* async function: each await of the source is one step of the sweep, and  *)
(* steps of different sweeps, ticks, start() and stop() interleave.        *)
(***************************************************************************)
EXTENDS Integers, Sequences, FiniteSets, TLC

VARIABLES
    hour,              \* wall clock: the number of hour boundaries passed (UTC)
    users,             \* table users: user_id -> timezone_identifier (NoZone: no row)
    nick,              \* per user, the offset annotation carried by the nickname
    isRunning,         \* DSTService.isRunning
    intervalId,        \* DSTService.intervalId: "null" or "armed"
    initialTimeoutId,  \* DSTService.initialTimeoutId: "undefined", "null", "pending", "fired"
    sweeps,            \* the checkDSTChanges calls in flight, keyed by the hour they began
    lastDone,          \* history: the sweep that returned last, as it was on return
    lastCall,          \* history: "start" or "stop" when the last step was that call
    members,           \* the guilds of one user: per server, who hosts it and the member in it
    call,              \* one updateUserNicknamesForDST call and what it has done so far
    fmt,               \* one nickname on its way through the formatting functions
    event,             \* one GuildMemberUpdate event and what its handler has done
    fleet,             \* per shard process: how far TimezoneBot.start() is, its DSTService
    pass,              \* one checkDSTChanges call, the fan-out calls it makes step by step
    clear,             \* one handleClearData call (the clear action of a user)
    logCall,           \* one call of a logger operation
    startCall          \* one DSTService.start() call: the instant it is made at

vars == <<hour, users, nick, isRunning, intervalId, initialTimeoutId, sweeps, lastDone, lastCall,
          members, call, fmt, event, fleet, pass, clear, logCall, startCall>>

\* The state of the scheduler and its sweeps
schedVars == <<hour, users, nick, isRunning, intervalId, initialTimeoutId, sweeps, lastDone, lastCall>>

\* The state of a single fan-out call, of a single formatting, of a single
\* member-update event, of the shard processes, of a single sweep with its
\* fan-out calls, of a single clear action, of a single logger call and of
\* a single start() call
fanVars == <<members, call, fmt, event, fleet, pass, clear, logCall, startCall>>

----------------------------------------------------------------------------
(* Bounds of the model *)

MaxHour == 2
MaxSweeps == 2

(* Constants of the program *)

StatsLimit == 10
CheckHour == 5
HoursPerDay == 24

----------------------------------------------------------------------------
(* The timezone database, as far as the detector reads it.  Offsets are in  *)
(* whole hours, east of UTC positive (luxon's DateTime.offset, scaled).     *)
(* A zone has one offset before the instant `at` and one from it on.  The   *)
(* two zones that change do so at hour 0: Spring/Forward from 03:00 to      *)
(* 04:00 local, Fall/Back from 04:00 to 03:00 local.                        *)

NoZone == "none"

ZoneList ==
    << "Fall/Back", "Fixed/A", "Fixed/B", "Fixed/C", "Fixed/D", "Fixed/E",
       "Fixed/F", "Fixed/G", "Fixed/H", "Invalid/Timezone", "Spring/Forward" >>

Zones == { ZoneList[n] : n \in 1..Len(ZoneList) }

ZoneRule(z) ==
    CASE z = "Spring/Forward" -> [before |-> 3, after |-> 4, at |-> 0]
      [] z = "Fall/Back"      -> [before |-> 4, after |-> 3, at |-> 0]
      [] z = "Fixed/A"        -> [before |-> 4, after |-> 4, at |-> 0]
      [] z = "Fixed/B"        -> [before |-> 0 - 5, after |-> 0 - 5, at |-> 0]
      [] z = "Fixed/C"        -> [before |-> 9, after |-> 9, at |-> 0]
      [] z = "Fixed/D"        -> [before |-> 0, after |-> 0, at |-> 0]
      [] z = "Fixed/E"        -> [before |-> 2, after |-> 2, at |-> 0]
      [] z = "Fixed/F"        -> [before |-> 0 - 8, after |-> 0 - 8, at |-> 0]
      [] z = "Fixed/G"        -> [before |-> 5, after |-> 5, at |-> 0]
      [] z = "Fixed/H"        -> [before |-> 12, after |-> 12, at |-> 0]
      [] OTHER                -> [before |-> 0, after |-> 0, at |-> 0]

\* Identifiers that are not names of the zone database: the values null
\* and undefined, the empty string and a number (120).
NullId == "<null>"
UndefinedId == "<undefined>"
EmptyId == ""
NumberId == "<120>"

\* The zone of the host process (luxon's default zone): UTC in the image
\* the bot is run in, any zone where the host of a probe is given.
SystemZone == IF "host" \in DOMAIN fmt THEN fmt.host ELSE "Fixed/D"

\* The zone luxon makes of the argument of setZone: the default zone for
\* null and undefined, the zone of that fixed offset for a number (120
\* minutes: +2 hours), the zone of the name for a name it can resolve and
\* none otherwise.
normalizeZone(z) ==
    IF z \in {NullId, UndefinedId} THEN SystemZone
    ELSE IF z = NumberId THEN "Fixed/E"
    ELSE IF z \in Zones /\ z # "Invalid/Timezone" THEN z
    ELSE NoZone

\* A faulty isValidTimezone without the test for null, undefined and values
\* that are not strings: valid is what setZone makes a zone of.
IsValidZone_NoTypeCheck(z) == normalizeZone(z) # NoZone

\* isValidTimezone(z): a non-empty string that resolves to a zone
IsValidZone(z) == z \in Zones /\ z # "Invalid/Timezone"

\* zone.offset(ts): the offset of zone z at the instant ts
ZoneOffset(z, ts) == IF ts < ZoneRule(z).at THEN ZoneRule(z).before ELSE ZoneRule(z).after

Min(a, b) == IF a < b THEN a ELSE b
Max(a, b) == IF a < b THEN b ELSE a

\* DateTime.now().setZone(timezone) at the instant ts.  An unresolvable zone
\* gives an invalid DateTime, whose hour and offset are NaN.
setZone(ts, z) ==
    LET zone == normalizeZone(z)
    IN  IF zone # NoZone
        THEN [isValid |-> TRUE, ts |-> ts, zone |-> zone, offset |-> ZoneOffset(zone, ts),
              hour |-> (ts + ZoneOffset(zone, ts)) % HoursPerDay]
        ELSE [isValid |-> FALSE, ts |-> ts, zone |-> z, offset |-> 0, hour |-> 0]

\* dt.minus({ days: 1 }): the same wall clock reading one calendar day
\* earlier, resolved back to an instant of the zone the way luxon does
\* (guess with the current offset, correct once, and in a gap take the
\* later offset).
minusOneDay(dt) ==
    LET localTS == dt.ts + dt.offset - HoursPerDay
        o       == dt.offset
        guess1  == localTS - o
        o2      == ZoneOffset(dt.zone, guess1)
        guess2  == localTS - o2
        o3      == ZoneOffset(dt.zone, guess2)
    IN  IF o2 = o THEN [dt EXCEPT !.ts = guess1, !.offset = o,
                                  !.hour = (guess1 + o) % HoursPerDay]
        ELSE IF o2 = o3 THEN [dt EXCEPT !.ts = guess2, !.offset = o2,
                                        !.hour = (guess2 + o2) % HoursPerDay]
        ELSE [dt EXCEPT !.ts = localTS - Min(o2, o3), !.offset = Max(o2, o3),
                        !.hour = (localTS - Min(o2, o3) + Max(o2, o3)) % HoursPerDay]

\* The offset annotation a nickname carries: <<>> for none, <<o>> for the
\* label of offset o.  formatNicknameWithTimezone gives the label of the
\* zone's offset at the instant ts, and null (here <<>>, with ok FALSE) when
\* getCurrentOffset throws for an invalid zone.
formatAnnotation(timezone, ts) ==
    IF IsValidZone(timezone)
    THEN [ok |-> TRUE, label |-> <<ZoneOffset(timezone, ts)>>]
    ELSE [ok |-> FALSE, label |-> <<>>]

----------------------------------------------------------------------------
(* Nicknames.  A string is the sequence of its characters; null and the    *)
(* empty string, which the code tells apart by truthiness only, are both   *)
(* the empty sequence.                                                     *)

NickLimit == 32
SpecialBase == 22
MinutesPerHour == 60

NoUser == "null"
SpecialUserId == "461232602188349470"

DigitChar == <<"0", "1", "2", "3", "4", "5", "6", "7", "8", "9">>

\* The decimal digits of a natural number
RECURSIVE Digits(_)
Digits(n) ==
    IF n < 10 THEN <<DigitChar[n + 1]>>
    ELSE Digits(n \div 10) \o <<DigitChar[(n % 10) + 1]>>

\* `${hours}` for hours = minutes / 60 that is not whole and has at most
\* two decimals (minutes a multiple of 3, as every quarter hour is): the
\* whole part, the point and the decimals without a trailing zero.
NumberToString(minutes) ==
    LET whole      == minutes \div MinutesPerHour
        hundredths == ((minutes % MinutesPerHour) * 100) \div MinutesPerHour
    IN  Digits(whole) \o <<".">> \o
        (IF hundredths % 10 = 0 THEN Digits(hundredths \div 10)
         ELSE Digits(hundredths \div 10) \o Digits(hundredths % 10))

\* A faulty rendering with the sign of the POSIX convention.
renderOffset_PosixSign(offset) ==
    IF offset = 0 THEN <<"U", "T", "C", "+", "0">>
    ELSE LET minutes == IF offset < 0 THEN 0 - offset ELSE offset
             sign    == IF offset < 0 THEN "+" ELSE "-"
         IN  IF minutes % MinutesPerHour = 0
             THEN <<"U", "T", "C", sign>> \o Digits(minutes \div MinutesPerHour)
             ELSE <<"U", "T", "C", sign>> \o NumberToString(minutes)

\* What getCurrentOffset makes of dt.offset, the offset in minutes: "UTC+0"
\* for 0, otherwise "UTC", the sign and the hours, Math.floor(hours) when
\* hours % 1 === 0 and `${hours}` when not.
renderOffset(offset) ==
    IF offset = 0 THEN <<"U", "T", "C", "+", "0">>
    ELSE LET minutes == IF offset < 0 THEN 0 - offset ELSE offset
             sign    == IF offset > 0 THEN "+" ELSE "-"
         IN  IF minutes % MinutesPerHour = 0
             THEN <<"U", "T", "C", sign>> \o Digits(minutes \div MinutesPerHour)
             ELSE <<"U", "T", "C", sign>> \o NumberToString(minutes)

\* getCurrentOffset(timezone) at the instant ts: it throws for a zone that
\* is not valid (ok FALSE) and otherwise renders the offset of the zone.
getCurrentOffset(timezone, ts) ==
    IF ~IsValidZone(timezone) THEN [ok |-> FALSE, label |-> <<>>]
    ELSE [ok |-> TRUE,
          label |-> renderOffset(ZoneOffset(timezone, ts) * MinutesPerHour)]

\* A faulty detector without the 5 am gate: it compares the offsets at
\* every hour.
checkTimezoneForDST_NoGate(timezone, ts) ==
    LET now == setZone(ts, timezone)
    IN  IF ~now.isValid
        THEN [result |-> FALSE, compared |-> FALSE]
        ELSE LET changed == now.offset # minusOneDay(now).offset
             IN  [result |-> changed /\ getCurrentOffset(timezone, ts).ok,
                  compared |-> TRUE]

\* checkTimezoneForDST(timezone), run at the instant ts.  `compared` tells
\* whether the offsets were read and compared.  For an invalid DateTime
\* now.hour is NaN and NaN !== 5, so the early return is taken.  Where the
\* offsets differ getCurrentOffset(timezone) is called for the log line,
\* and when it throws the catch returns false.
checkTimezoneForDST(timezone, ts) ==
    LET now == setZone(ts, timezone)
    IN  IF ~now.isValid \/ now.hour # CheckHour
        THEN [result |-> FALSE, compared |-> FALSE]
        ELSE LET yesterday       == minusOneDay(now)
                 todayOffset     == now.offset
                 yesterdayOffset == yesterday.offset
             IN  IF todayOffset # yesterdayOffset
                 THEN [result |-> getCurrentOffset(timezone, ts).ok, compared |-> TRUE]
                 ELSE [result |-> FALSE, compared |-> TRUE]

\* String.prototype.trim
trim(str) ==
    LET solid == { n \in 1..Len(str) : str[n] # " " }
    IN  IF solid = {} THEN <<>>
        ELSE SubSeq(str, CHOOSE n \in solid : \A m \in solid : n <= m,
                         CHOOSE n \in solid : \A m \in solid : m <= n)

\* String.prototype.substring(0, n)
substring(str, n) == SubSeq(str, 1, Min(n, Len(str)))

\* \(UTC[+-][\d.]+\)$ with flag i matches str from position p on.
AnnotationAt(str, p) ==
    /\ p >= 1
    /\ p + 6 <= Len(str)
    /\ str[p] = "("
    /\ str[p + 1] \in {"U", "u"}
    /\ str[p + 2] \in {"T", "t"}
    /\ str[p + 3] \in {"C", "c"}
    /\ str[p + 4] \in {"+", "-"}
    /\ \A q \in (p + 5)..(Len(str) - 1) :
           str[q] \in { DigitChar[d] : d \in 1..Len(DigitChar) } \cup {"."}
    /\ str[Len(str)] = ")"

\* hasTimezoneInfo(nickname)
hasTimezoneInfo(nickname) ==
    \E p \in 1..Len(nickname) : AnnotationAt(nickname, p)

\* The first position of the run of white space that ends before p
RECURSIVE RunStart(_, _)
RunStart(str, p) ==
    IF p > 1 /\ str[p - 1] = " " THEN RunStart(str, p - 1) ELSE p

\* removeTimezoneFromNickname(nickname):
\* nickname.replace(/\s*\(UTC[+-][\d.]+\)$/i, '').trim()
removeTimezoneFromNickname(nickname) ==
    IF nickname = <<>> THEN <<>>
    ELSE IF hasTimezoneInfo(nickname)
    THEN LET p == CHOOSE q \in 1..Len(nickname) : AnnotationAt(nickname, q)
         IN  trim(SubSeq(nickname, 1, RunStart(nickname, p) - 1))
    ELSE trim(nickname)

\* `${base} (${label})`
Compose(base, label) == base \o <<" ", "(">> \o label \o <<")">>

SpecialLabel == <<"U", "T", "C", "+", "D", "e", "l">>

\* A faulty service function whose truncated base is one character too
\* long.
serviceFormatNickname_OffByOne(currentNickname, timezone, username, ts) ==
    LET offset == getCurrentOffset(timezone, ts)
    IN  IF ~offset.ok THEN [ok |-> FALSE, value |-> <<>>]
        ELSE LET baseName    == IF currentNickname # <<>> THEN currentNickname
                                ELSE username
                 cleanName   == removeTimezoneFromNickname(baseName)
                 newNickname == Compose(cleanName, offset.label)
             IN  IF Len(newNickname) > NickLimit
                 THEN [ok |-> TRUE,
                       value |-> Compose(substring(cleanName, NickLimit - Len(offset.label) - 2),
                                         offset.label)]
                 ELSE [ok |-> TRUE, value |-> newNickname]

\* TimezoneService.formatNicknameWithTimezone(currentNickname, timezone,
\* username) at the instant ts; ok FALSE stands for the result null.
serviceFormatNickname(currentNickname, timezone, username, ts) ==
    LET offset == getCurrentOffset(timezone, ts)
    IN  IF ~offset.ok THEN [ok |-> FALSE, value |-> <<>>]
        ELSE LET baseName    == IF currentNickname # <<>> THEN currentNickname
                                ELSE username
                 cleanName   == removeTimezoneFromNickname(baseName)
                 newNickname == Compose(cleanName, offset.label)
             IN  IF Len(newNickname) > NickLimit
                 THEN LET maxBaseLength == NickLimit - Len(offset.label) - 3
                          truncatedBase == substring(cleanName, maxBaseLength)
                      IN  [ok |-> TRUE, value |-> Compose(truncatedBase, offset.label)]
                 ELSE [ok |-> TRUE, value |-> newNickname]

\* formatNicknameWithTimezone(currentNickname, timezone, username, userId)
\* of the code the shards evaluate: the pinned user gets " (UTC+Del)"
\* whatever the zone, everyone else what the service function gives.
formatNicknameWithTimezone(currentNickname, timezone, username, userId, ts) ==
    IF userId = SpecialUserId
    THEN LET baseName        == IF currentNickname # <<>> THEN currentNickname
                                ELSE username
             cleanName       == removeTimezoneFromNickname(baseName)
             specialNickname == Compose(cleanName, SpecialLabel)
         IN  IF Len(specialNickname) > NickLimit
             THEN LET maxBaseLength == SpecialBase
                      truncatedBase == substring(cleanName, maxBaseLength)
                  IN  [ok |-> TRUE, value |-> Compose(truncatedBase, SpecialLabel)]
             ELSE [ok |-> TRUE, value |-> specialNickname]
    ELSE serviceFormatNickname(currentNickname, timezone, username, ts)

----------------------------------------------------------------------------
(* The persistent store, read only *)

Users == 1..Len(ZoneList)

\* SELECT user_id FROM users WHERE timezone_identifier = ?  (rowid order)
RECURSIVE UsersFrom(_, _)
UsersFrom(z, u) ==
    IF u > Len(ZoneList) THEN <<>>
    ELSE IF users[u] = z THEN <<u>> \o UsersFrom(z, u + 1)
    ELSE UsersFrom(z, u + 1)

getUsersInTimezone(z) == UsersFrom(z, 1)

InUse == { users[u] : u \in Users } \ {NoZone}

CountOf(z) == Cardinality({ u \in Users : users[u] = z })

\* GROUP BY timezone_identifier ORDER BY count DESC: the zones in use, those
\* of count c before those of smaller counts, zones of equal count in the
\* order of the grouping key (the order of ZoneList).
RECURSIVE ByCountDesc(_)
ByCountDesc(c) ==
    IF c = 0 THEN <<>>
    ELSE SelectSeq(ZoneList, LAMBDA z : CountOf(z) = c) \o ByCountDesc(c - 1)

\* getStats().popularTimezones mapped to the identifiers: the first
\* StatsLimit rows of that order (LIMIT 10).
popularTimezones ==
    SubSeq(ByCountDesc(Len(ZoneList)), 1, Min(Cardinality(InUse), StatsLimit))

----------------------------------------------------------------------------------------------------------------------------------------------------------------------------------------------------
(* Sweeps: the checkDSTChanges calls in flight.  A sweep is suspended only *)
(* where the source awaits an operation that leaves the process (a query   *)
(* of the store, a broadcast to the shards, a logger call); what runs      *)
(* between two such awaits is one step.                                    *)

\* The state of a checkDSTChanges call suspended at its first await
\* (databaseService.getStats()).  tzs is timezonesInUse and i the position
\* of the detector loop; toUpdate is timezonesToUpdate and j the position
\* of the loop of updateUsersForDSTChanges; us is usersInTimezone and k the
\* position of the loop over it.  History: id is the hour the call began
\* at, by the timer that began it ("timeout" or "interval"), hits the zones
\* for which the detector computed true, lateWrites the nickname writes
\* this sweep made while isRunning was false.
NewSweep(h, timer) ==
    [pc |-> "getStats", tzs |-> <<>>, i |-> 0, toUpdate |-> <<>>, j |-> 0,
     us |-> <<>>, k |-> 0, usersUpdated |-> 0, totalUsersUpdated |-> 0,
     id |-> h, by |-> timer, hits |-> <<>>, lateWrites |-> 0]

NoSweep == [NewSweep(0, "none") EXCEPT !.pc = "none"]

InFlight == DOMAIN sweeps

Put(s, rec) == [x \in InFlight \cup {s} |-> IF x = s THEN rec ELSE sweeps[x]]

\* What history keeps of a sweep that returned: how it ended, the zones
\* it got, checked, found and fanned out.
Summary(rec) ==
    [NoSweep EXCEPT !.pc = rec.pc, !.id = rec.id, !.tzs = rec.tzs, !.i = rec.i,
                    !.toUpdate = rec.toUpdate, !.j = rec.j, !.hits = rec.hits,
                    !.lateWrites = rec.lateWrites]

\* The sweep goes on as rec: it is suspended at rec.pc, or, at "done",
\* "empty" and "failed", checkDSTChanges returns.
Continue(s, rec) ==
    IF rec.pc \in {"done", "empty", "failed"}
    THEN /\ sweeps' = [x \in InFlight \ {s} |-> sweeps[x]]
         /\ lastDone' = Summary(rec)
    ELSE /\ sweeps' = Put(s, rec)
         /\ UNCHANGED lastDone

\* The first position from i on whose zone the detector reports at the
\* instant ts, 0 when there is none.
RECURSIVE FirstDetected(_, _, _)
FirstDetected(tzs, i, ts) ==
    IF i > Len(tzs) THEN 0
    ELSE IF checkTimezoneForDST(tzs[i], ts).result THEN i
    ELSE FirstDetected(tzs, i + 1, ts)

\* A faulty loop whose test for zones to update is off by one: a single
\* transitioned zone is not fanned out.
DetectorLoop_OffByOne(rec, ts) ==
    LET n == FirstDetected(rec.tzs, rec.i, ts)
    IN  IF n > 0 THEN [rec EXCEPT !.pc = "logDetect", !.i = n,
                                  !.hits = Append(rec.hits, rec.tzs[n])]
        ELSE IF Len(rec.toUpdate) > 1
        THEN [rec EXCEPT !.pc = "getUsers", !.i = Len(rec.tzs) + 1, !.j = 1]
        ELSE [rec EXCEPT !.pc = "done", !.i = Len(rec.tzs) + 1]

\* A faulty loop without the per-zone error handling: a zone that cannot be
\* resolved throws out of the loop into the outer catch of the sweep.
DetectorLoop_AbortsOnError(rec, ts) ==
    LET n   == FirstDetected(rec.tzs, rec.i, ts)
        bad == { m \in rec.i..Len(rec.tzs) :
                   ~IsValidZone(rec.tzs[m]) /\ (n = 0 \/ m < n) }
    IN  IF bad # {} THEN [rec EXCEPT !.pc = "logError",
                                     !.i = CHOOSE m \in bad : \A x \in bad : m <= x]
        ELSE IF n > 0 THEN [rec EXCEPT !.pc = "logDetect", !.i = n,
                                       !.hits = Append(rec.hits, rec.tzs[n])]
        ELSE IF Len(rec.toUpdate) > 0
        THEN [rec EXCEPT !.pc = "getUsers", !.i = Len(rec.tzs) + 1, !.j = 1]
        ELSE [rec EXCEPT !.pc = "done", !.i = Len(rec.tzs) + 1]

\* The detector loop of checkDSTChanges from position rec.i on, at the
\* instant ts.  A detector call that finds no change returns without
\* leaving the process; one that finds a change awaits logger.log before it
\* returns true.  After the last zone updateUsersForDSTChanges is called
\* if a zone is to be updated, and the sweep returns if none is.
DetectorLoop(rec, ts) ==
    LET n == FirstDetected(rec.tzs, rec.i, ts)
    IN  IF n > 0 THEN [rec EXCEPT !.pc = "logDetect", !.i = n,
                                  !.hits = Append(rec.hits, rec.tzs[n])]
        ELSE IF Len(rec.toUpdate) > 0
        THEN [rec EXCEPT !.pc = "getUsers", !.i = Len(rec.tzs) + 1, !.j = 1]
        ELSE [rec EXCEPT !.pc = "done", !.i = Len(rec.tzs) + 1]

\* What follows the work on toUpdate[j]: the next transitioned zone, or,
\* after the last, the summary (awaited only if a user was updated).
NextZone(rec) ==
    IF rec.j < Len(rec.toUpdate)
    THEN [rec EXCEPT !.pc = "getUsers", !.j = rec.j + 1,
                     !.us = <<>>, !.k = 0, !.usersUpdated = 0]
    ELSE IF rec.totalUsersUpdated > 0
    THEN [rec EXCEPT !.pc = "logDone"]
    ELSE [rec EXCEPT !.pc = "done"]

\* No fan-out call and no formatting is looked at.
NoCall == [pc |-> "none"]
NoFmt == [stage |-> "none"]
NoEvent == [pc |-> "none"]
NoFleet == << >>
NoPass == [pc |-> "none"]
NoClear == [pc |-> "none"]
NoLogCall == [pc |-> "none"]
NoStartCall == [pc |-> "none"]

----------------
(* Initial states: a freshly constructed DSTService over one of three      *)
(* stores, every nickname carrying the annotation its zone had when the    *)
(* user set the timezone, the day before.                                  *)

StoreEmpty == [u \in Users |-> NoZone]

StoreSmall ==
    [u \in Users |-> CASE u \in {1, 2, 3} -> "Invalid/Timezone"
                       [] u \in {4, 5}    -> "Spring/Forward"
                       [] u = 6           -> "Fall/Back"
                       [] u = 7           -> "Fixed/A"
                       [] OTHER           -> NoZone]

StoreWide == [u \in Users |-> ZoneList[u]]

Stores == {StoreEmpty, StoreSmall, StoreWide}

Init ==
    /\ hour = 0
    /\ users \in Stores
    /\ nick = [u \in Users |-> formatAnnotation(users[u], 0 - HoursPerDay).label]
    /\ isRunning = FALSE
    /\ intervalId = "null"
    /\ initialTimeoutId = "undefined"
    /\ sweeps = << >>
    /\ lastDone = NoSweep
    /\ lastCall = "none"
    /\ members = << >>
    /\ call = NoCall
    /\ fmt = NoFmt
    /\ event = NoEvent
    /\ fleet = NoFleet
    /\ pass = NoPass
    /\ clear = NoClear
    /\ logCall = NoLogCall
    /\ startCall = NoStartCall

----------------------------------------------------------------------------
(* DSTService.start and DSTService.stop *)

\* A faulty start() without the isRunning guard: it sets a one-shot timer
\* on every call.
Start_NoGuard ==
    /\ lastCall' = "start"
    /\ initialTimeoutId' = "pending"
    /\ isRunning' = TRUE
    /\ UNCHANGED <<intervalId, hour, users, nick, sweeps, lastDone>>
    /\ UNCHANGED fanVars


\* start(): a no-op when already running; otherwise the one-shot timer for
\* the next hour boundary is set and isRunning becomes true.
Start ==
    /\ lastCall' = "start"
    /\ IF isRunning
       THEN UNCHANGED <<isRunning, intervalId, initialTimeoutId>>
       ELSE /\ initialTimeoutId' = "pending"
            /\ isRunning' = TRUE
            /\ UNCHANGED intervalId
    /\ UNCHANGED <<hour, users, nick, sweeps, lastDone>>
    /\ UNCHANGED fanVars


\* A faulty stop() that clears the interval only and leaves a pending
\* one-shot timer alive.
Stop_KeepsTimeout ==
    /\ lastCall' = "stop"
    /\ intervalId' = "null"
    /\ isRunning' = FALSE
    /\ UNCHANGED <<initialTimeoutId, hour, users, nick, sweeps, lastDone>>
    /\ UNCHANGED fanVars


\* A faulty stop() that also abandons the checks in flight.
Stop_CancelsSweeps ==
    /\ lastCall' = "stop"
    /\ intervalId' = "null"
    /\ initialTimeoutId' = IF initialTimeoutId \in {"pending", "fired"}
                           THEN "null" ELSE initialTimeoutId
    /\ isRunning' = FALSE
    /\ sweeps' = << >>
    /\ UNCHANGED <<hour, users, nick, lastDone>>
    /\ UNCHANGED fanVars


\* stop(): clearInterval / clearTimeout on the handles that are set, then
\* isRunning = false.  The handle of a timer that has fired is still set.
Stop ==
    /\ lastCall' = "stop"
    /\ intervalId' = "null"
    /\ initialTimeoutId' = IF initialTimeoutId \in {"pending", "fired"}
                           THEN "null" ELSE initialTimeoutId
    /\ isRunning' = FALSE
    /\ UNCHANGED <<hour, users, nick, sweeps, lastDone>>
    /\ UNCHANGED fanVars


\* getStatus(): the flag, whether the interval handle is set, and the
\* description of the next check (the time of day in it is left out).
getStatus ==
    [isRunning  |-> isRunning,
     intervalId |-> intervalId # "null",
     nextCheck  |-> IF isRunning THEN "Every hour on the hour" ELSE "Not scheduled"]

----------------------------------------------------------------------------
(* The wall clock reaches the next hour boundary *)

TimerLive == initialTimeoutId = "pending" \/ intervalId = "armed"

CanTick == hour < MaxHour /\ (TimerLive => Cardinality(InFlight) < MaxSweeps)

\* No timer is due at this boundary.
TickIdle ==
    /\ CanTick
    /\ ~TimerLive
    /\ hour' = hour + 1
    /\ lastCall' = "none"
    /\ UNCHANGED <<users, nick, isRunning, intervalId, initialTimeoutId, sweeps, lastDone>>
    /\ UNCHANGED fanVars


\* A faulty first wake that begins the first check and never sets the
\* interval.
FirstWake_NoInterval ==
    /\ CanTick
    /\ initialTimeoutId = "pending"
    /\ hour' = hour + 1
    /\ sweeps' = Put(hour + 1, NewSweep(hour + 1, "timeout"))
    /\ initialTimeoutId' = "fired"
    /\ lastCall' = "none"
    /\ UNCHANGED <<intervalId, users, nick, isRunning, lastDone>>
    /\ UNCHANGED fanVars


\* The one-shot timer of start() fires: the first check is begun and the
\* hourly interval is set.
FirstWake ==
    /\ CanTick
    /\ initialTimeoutId = "pending"
    /\ hour' = hour + 1
    /\ sweeps' = Put(hour + 1, NewSweep(hour + 1, "timeout"))
    /\ intervalId' = "armed"
    /\ initialTimeoutId' = "fired"
    /\ lastCall' = "none"
    /\ UNCHANGED <<users, nick, isRunning, lastDone>>
    /\ UNCHANGED fanVars


\* A faulty interval callback with a busy guard: it skips the tick while a
\* check is in flight.
IntervalTick_Guarded ==
    /\ CanTick
    /\ initialTimeoutId # "pending"
    /\ intervalId = "armed"
    /\ hour' = hour + 1
    /\ sweeps' = IF InFlight = {} THEN Put(hour + 1, NewSweep(hour + 1, "interval"))
                  ELSE sweeps
    /\ lastCall' = "none"
    /\ UNCHANGED <<users, nick, isRunning, intervalId, initialTimeoutId, lastDone>>
    /\ UNCHANGED fanVars


\* The interval timer fires, 3600 s after its last firing.
IntervalTick ==
    /\ CanTick
    /\ initialTimeoutId # "pending"
    /\ intervalId = "armed"
    /\ hour' = hour + 1
    /\ sweeps' = Put(hour + 1, NewSweep(hour + 1, "interval"))
    /\ lastCall' = "none"
    /\ UNCHANGED <<users, nick, isRunning, intervalId, initialTimeoutId, lastDone>>
    /\ UNCHANGED fanVars


----------------------------------------------------------------------------------------------------------------------------------------
(* The steps of checkDSTChanges *)

\* A faulty sweep without the test for an empty list: the detector loop
\* runs over no zone and the sweep ends as a sweep that found nothing.
GetStatsOk_NoEmptyCheck(s) ==
    /\ sweeps[s].pc = "getStats"
    /\ Continue(s, DetectorLoop([sweeps[s] EXCEPT !.tzs = popularTimezones,
                                                  !.i = 1], hour))
    /\ lastCall' = "none"
    /\ UNCHANGED <<hour, users, nick, isRunning, intervalId, initialTimeoutId>>
    /\ UNCHANGED fanVars


\* getStats() resolves.  With no timezone in use the sweep returns at
\* once; otherwise the detector loop starts.
GetStatsOk(s) ==
    /\ sweeps[s].pc = "getStats"
    /\ LET timezonesInUse == popularTimezones
       IN  IF Len(timezonesInUse) = 0
           THEN Continue(s, [sweeps[s] EXCEPT !.pc = "empty"])
           ELSE Continue(s, DetectorLoop([sweeps[s] EXCEPT !.tzs = timezonesInUse,
                                                           !.i = 1], hour))
    /\ lastCall' = "none"
    /\ UNCHANGED <<hour, users, nick, isRunning, intervalId, initialTimeoutId>>
    /\ UNCHANGED fanVars


\* A faulty sweep without the outer catch: the rejection of getStats()
\* takes the scheduler down.
GetStatsFail_Stops(s) ==
    /\ sweeps[s].pc = "getStats"
    /\ Continue(s, [sweeps[s] EXCEPT !.pc = "logError"])
    /\ lastCall' = "none"
    /\ isRunning' = FALSE
    /\ intervalId' = "null"
    /\ UNCHANGED <<hour, users, nick, initialTimeoutId>>
    /\ UNCHANGED fanVars


\* getStats() rejects: the outer catch awaits logger.error.
GetStatsFail(s) ==
    /\ sweeps[s].pc = "getStats"
    /\ Continue(s, [sweeps[s] EXCEPT !.pc = "logError"])
    /\ lastCall' = "none"
    /\ UNCHANGED <<hour, users, nick, isRunning, intervalId, initialTimeoutId>>
    /\ UNCHANGED fanVars


\* The logger call of checkTimezoneForDST(tzs[i]) resolves: the detector
\* returns true, the zone is pushed and the loop goes on at the present
\* hour.
DetectedResolves(s) ==
    /\ sweeps[s].pc = "logDetect"
    /\ LET cur == sweeps[s]
       IN  Continue(s, DetectorLoop([cur EXCEPT
                                       !.toUpdate = Append(cur.toUpdate, cur.tzs[cur.i]),
                                       !.i = cur.i + 1], hour))
    /\ lastCall' = "none"
    /\ UNCHANGED <<hour, users, nick, isRunning, intervalId, initialTimeoutId>>
    /\ UNCHANGED fanVars


\* updateUsersForDSTChanges: getUsersInTimezone(toUpdate[j]) resolves; a
\* zone without users is passed over.
GetUsers(s) ==
    /\ sweeps[s].pc = "getUsers"
    /\ LET cur             == sweeps[s]
           usersInTimezone == getUsersInTimezone(cur.toUpdate[cur.j])
       IN  IF Len(usersInTimezone) = 0
           THEN Continue(s, NextZone(cur))
           ELSE Continue(s, [cur EXCEPT !.pc = "update", !.k = 1,
                                        !.us = usersInTimezone])
    /\ lastCall' = "none"
    /\ UNCHANGED <<hour, users, nick, isRunning, intervalId, initialTimeoutId>>
    /\ UNCHANGED fanVars


\* updateUserNicknamesForDST(us[k], toUpdate[j]) resolves: the nickname is
\* written where the freshly formatted one is not null and differs from the
\* current one, and the call returns the number of nicknames written.
UpdateUser(s) ==
    /\ sweeps[s].pc = "update"
    /\ LET cur         == sweeps[s]
           userId      == cur.us[cur.k]
           newNickname == formatAnnotation(cur.toUpdate[cur.j], hour)
           updated     == IF newNickname.ok /\ newNickname.label # nick[userId]
                          THEN 1 ELSE 0
           rec         == [cur EXCEPT
                             !.usersUpdated = cur.usersUpdated + updated,
                             !.lateWrites = IF isRunning THEN cur.lateWrites
                                            ELSE cur.lateWrites + updated]
       IN  /\ nick' = IF updated > 0
                      THEN [nick EXCEPT ![userId] = newNickname.label] ELSE nick
           /\ IF cur.k < Len(cur.us)
              THEN Continue(s, [rec EXCEPT !.k = cur.k + 1])
              ELSE Continue(s, [rec EXCEPT
                                  !.pc = "logDST",
                                  !.totalUsersUpdated =
                                      cur.totalUsersUpdated + rec.usersUpdated])
    /\ lastCall' = "none"
    /\ UNCHANGED <<hour, users, isRunning, intervalId, initialTimeoutId>>
    /\ UNCHANGED fanVars


\* A logger call of the sweep resolves: logDSTChange after the users of a
\* zone, the summary after the last zone, logger.error in the outer catch.
LogResolves(s) ==
    /\ sweeps[s].pc \in {"logDST", "logDone", "logError"}
    /\ Continue(s, CASE sweeps[s].pc = "logDST"  -> NextZone(sweeps[s])
                     [] sweeps[s].pc = "logDone" -> [sweeps[s] EXCEPT !.pc = "done"]
                     [] OTHER                    -> [sweeps[s] EXCEPT !.pc = "failed"])
    /\ lastCall' = "none"
    /\ UNCHANGED <<hour, users, nick, isRunning, intervalId, initialTimeoutId>>
    /\ UNCHANGED fanVars


SweepStep(s) ==
    \/ GetStatsOk(s)
    \/ GetStatsFail(s)
    \/ DetectedResolves(s)
    \/ GetUsers(s)
    \/ UpdateUser(s)
    \/ LogResolves(s)

----------------------------------------------------------------------------

Next ==
    \/ Start
    \/ Stop
    \/ TickIdle
    \/ FirstWake
    \/ IntervalTick
    \/ \E s \in InFlight : GetStatsOk(s)
    \/ \E s \in InFlight : GetStatsFail(s)
    \/ \E s \in InFlight : DetectedResolves(s)
    \/ \E s \in InFlight : GetUsers(s)
    \/ \E s \in InFlight : UpdateUser(s)
    \/ \E s \in InFlight : LogResolves(s)

Spec == Init /\ [][Next]_vars

----------------------------------------------------------------------------
(* The formatting functions on their own: a nickname is formatted,         *)
(* stripped and formatted again, at a fixed instant.                       *)

MaxNameLen == 40

\* A name of n characters with a space at position sp (none for sp = 0)
Name(n, sp) == [x \in 1..n |-> IF x = sp THEN " " ELSE "A"]

Names == { Name(n, sp) : n \in 0..MaxNameLen, sp \in 0..MaxNameLen }

\* What a nickname may end with: nothing, an annotation of an earlier
\* offset after a space or right after the name, the annotation of the
\* pinned user.
Suffixes ==
    { <<>>, <<" ", "(", "U", "T", "C", "+", "3", ")">>,
      <<"(", "U", "T", "C", "+", "5", ")">>,
      <<" ", "(">> \o SpecialLabel \o <<")">> }

FormatZones == {"Fixed/B", "Fixed/H", "Invalid/Timezone"}

FormatUsername == <<"u", "s", "r">>

InitFormat ==
    /\ hour = 0
    /\ users = StoreEmpty
    /\ nick = [u \in Users |-> <<>>]
    /\ isRunning = FALSE
    /\ intervalId = "null"
    /\ initialTimeoutId = "undefined"
    /\ sweeps = << >>
    /\ lastDone = NoSweep
    /\ lastCall = "none"
    /\ members = << >>
    /\ call = NoCall
    /\ event = NoEvent
    /\ fleet = NoFleet
    /\ pass = NoPass
    /\ clear = NoClear
    /\ logCall = NoLogCall
    /\ startCall = NoStartCall
    /\ \E name \in Names, suffix \in Suffixes, tz \in FormatZones,
          uid \in {NoUser, SpecialUserId} :
          fmt = [stage |-> "input", name |-> name, suffix |-> suffix,
                 tz |-> tz, uid |-> uid]

\* The nickname the formatting starts from
FmtInput == fmt.name \o fmt.suffix

\* formatNicknameWithTimezone is called on the input, by the service and
\* by the code of the shards.
Format ==
    /\ fmt.stage = "input"
    /\ fmt' = [stage |-> "formatted", name |-> fmt.name, suffix |-> fmt.suffix,
               tz |-> fmt.tz, uid |-> fmt.uid,
               svc |-> serviceFormatNickname(FmtInput, fmt.tz, FormatUsername, hour),
               out |-> formatNicknameWithTimezone(FmtInput, fmt.tz, FormatUsername,
                                                  fmt.uid, hour)]
    /\ UNCHANGED <<schedVars, members, call, event, fleet, pass, clear, logCall, startCall>>

\* removeTimezoneFromNickname is called on the two results.
Strip ==
    /\ fmt.stage = "formatted"
    /\ fmt.out.ok
    /\ fmt' = [stage |-> "stripped", name |-> fmt.name, suffix |-> fmt.suffix,
               tz |-> fmt.tz, uid |-> fmt.uid, svc |-> fmt.svc, out |-> fmt.out,
               svcClean |-> removeTimezoneFromNickname(fmt.svc.value),
               outClean |-> removeTimezoneFromNickname(fmt.out.value)]
    /\ UNCHANGED <<schedVars, members, call, event, fleet, pass, clear, logCall, startCall>>

\* formatNicknameWithTimezone is called on the stripped results.
Reformat ==
    /\ fmt.stage = "stripped"
    /\ fmt' = [stage |-> "again", name |-> fmt.name, suffix |-> fmt.suffix,
               tz |-> fmt.tz, uid |-> fmt.uid, svc |-> fmt.svc, out |-> fmt.out,
               svcClean |-> fmt.svcClean, outClean |-> fmt.outClean,
               svcAgain |-> serviceFormatNickname(fmt.svcClean, fmt.tz,
                                                  FormatUsername, hour),
               outAgain |-> formatNicknameWithTimezone(fmt.outClean, fmt.tz,
                                                       FormatUsername, fmt.uid, hour)]
    /\ UNCHANGED <<schedVars, members, call, event, fleet, pass, clear, logCall, startCall>>

NextFormat ==
    \/ Format
    \/ Strip
    \/ Reformat

SpecFormat == InitFormat /\ [][NextFormat]_vars

----------------------------------------------------------------------------
(* The rendering of an offset on its own: getCurrentOffset for a zone      *)
(* whose dt.offset is a given number of minutes.  The offsets of the zone  *)
(* database are quarter hours.                                             *)

MaxOffsetHours == 14

OffsetsInMinutes ==
    { 15 * q : q \in (0 - 4 * MaxOffsetHours)..(4 * MaxOffsetHours) }

InitOffset ==
    /\ hour = 0
    /\ users = StoreEmpty
    /\ nick = [u \in Users |-> <<>>]
    /\ isRunning = FALSE
    /\ intervalId = "null"
    /\ initialTimeoutId = "undefined"
    /\ sweeps = << >>
    /\ lastDone = NoSweep
    /\ lastCall = "none"
    /\ members = << >>
    /\ call = NoCall
    /\ event = NoEvent
    /\ fleet = NoFleet
    /\ pass = NoPass
    /\ clear = NoClear
    /\ logCall = NoLogCall
    /\ startCall = NoStartCall
    /\ \E offset \in OffsetsInMinutes : fmt = [stage |-> "offset", offset |-> offset]

\* getCurrentOffset returns the label of the offset.
RenderOffset ==
    /\ fmt.stage = "offset"
    /\ fmt' = [stage |-> "rendered", offset |-> fmt.offset,
               label |-> renderOffset(fmt.offset)]
    /\ UNCHANGED <<schedVars, members, call, event, fleet, pass, clear, logCall, startCall>>

NextOffset == RenderOffset

SpecOffset == InitOffset /\ [][NextOffset]_vars

----------------------------------------------------------------------------
(* One timezone identifier given to the functions that take one, at some   *)
(* hour of the day on a host in some zone.                                 *)

InvalidIds == {NullId, UndefinedId, EmptyId, NumberId, "Invalid/Timezone"}

ProbeIds == InvalidIds \cup {"Spring/Forward", "Fall/Back", "Fixed/B"}

Hosts == {"Fixed/D", "Spring/Forward", "Fall/Back"}

ProbeNick == <<"A", "l", " ", "(", "U", "T", "C", "+", "3", ")">>

InitProbe ==
    /\ hour \in 0..(HoursPerDay - 1)
    /\ users = StoreEmpty
    /\ nick = [u \in Users |-> <<>>]
    /\ isRunning = FALSE
    /\ intervalId = "null"
    /\ initialTimeoutId = "undefined"
    /\ sweeps = << >>
    /\ lastDone = NoSweep
    /\ lastCall = "none"
    /\ members = << >>
    /\ call = NoCall
    /\ event = NoEvent
    /\ fleet = NoFleet
    /\ pass = NoPass
    /\ clear = NoClear
    /\ logCall = NoLogCall
    /\ startCall = NoStartCall
    /\ \E tz \in ProbeIds, host \in Hosts :
          fmt = [stage |-> "identifier", tz |-> tz, host |-> host]

\* isValidTimezone, getCurrentOffset, formatNicknameWithTimezone (of the
\* service and of the shards, for an ordinary user) and checkTimezoneForDST
\* are called with the identifier.
Probe ==
    /\ fmt.stage = "identifier"
    /\ fmt' = [stage |-> "probed", tz |-> fmt.tz, host |-> fmt.host,
               valid |-> IsValidZone(fmt.tz),
               offset |-> getCurrentOffset(fmt.tz, hour),
               nickname |-> serviceFormatNickname(ProbeNick, fmt.tz, <<"A", "l">>, hour),
               shard |-> formatNicknameWithTimezone(ProbeNick, fmt.tz, <<"A", "l">>,
                                                    NoUser, hour),
               detected |-> checkTimezoneForDST(fmt.tz, hour)]
    /\ UNCHANGED <<schedVars, members, call, event, fleet, pass, clear, logCall, startCall>>

NextProbe == Probe

SpecProbe == InitProbe /\ [][NextProbe]_vars

----------------------------------------------------------------------------
(* One user's fan-out: updateUsersForDSTChanges looks up the users of one  *)
(* transitioned zone and calls updateUserNicknamesForDST(userId, timezone) *)
(* for the user it finds; the call is made again with the same arguments   *)
(* after it returned (the next sweep of the same zone).  The guilds of the *)
(* user are spread over two shards; every shard evaluates the same loop    *)
(* over the user's server list.                                            *)

MaxServers == 2
MaxRuns == 2

Shards == {0, 1}
NoShard == 0 - 1

FanHour == 1
FanUsername == <<"A", "l">>
FanUsers == {"42", SpecialUserId}
FanZones == {"Spring/Forward", "Invalid/Timezone"}

\* A guild of the user: the shard whose cache holds it (NoShard: none),
\* whether the member can be fetched, whether the user owns the guild,
\* member.manageable, whether setNickname rejects, member.nickname.
Guild(shard, present, owner, manageable, fails, nickname) ==
    [shard |-> shard, present |-> present, owner |-> owner,
     manageable |-> manageable, fails |-> fails, nickname |-> nickname]

StaleNick == FanUsername \o <<" ", "(", "U", "T", "C", "+", "3", ")">>
CurrentNick == FanUsername \o <<" ", "(", "U", "T", "C", "+", "4", ")">>
LongNick == Name(27, 24)

Guilds ==
    { Guild(0, TRUE, FALSE, TRUE, FALSE, <<>>),
      Guild(1, TRUE, FALSE, TRUE, FALSE, StaleNick),
      Guild(0, TRUE, FALSE, TRUE, FALSE, CurrentNick),
      Guild(1, TRUE, FALSE, TRUE, FALSE, LongNick),
      Guild(1, TRUE, TRUE, FALSE, FALSE, <<>>),
      Guild(0, TRUE, FALSE, FALSE, FALSE, StaleNick),
      Guild(0, TRUE, FALSE, TRUE, TRUE, StaleNick),
      Guild(1, FALSE, FALSE, TRUE, FALSE, <<>>),
      Guild(NoShard, TRUE, FALSE, TRUE, FALSE, <<>>) }

\* A call suspended at its first await (databaseService.getUserServers).
\* ran are the shards that have evaluated the loop, results and counts what
\* they return (localResults, localUpdatedCount); total is
\* totalUpdatedCount, queue the results the aggregation awaits the logger
\* for and k its position.  History: before is the guilds as the call found
\* them, audits the log entries emitted, returned the values of the calls
\* that returned, prevUpdated the servers the call before this one reported
\* as updated, answered whether getUserServers resolved, errors the number
\* of errors the call reported in a catch, failed the shards whose
\* evaluation rejected, reported the shards whose results had come in when
\* broadcastEval settled.
NewCall(userId, timezone, run, returned) ==
    [pc |-> "getServers", userId |-> userId, timezone |-> timezone, run |-> run,
     userServers |-> <<>>, ran |-> {}, results |-> [sh \in Shards |-> <<>>],
     counts |-> [sh \in Shards |-> 0], total |-> 0, queue |-> <<>>, k |-> 0,
     before |-> members, audits |-> <<>>, returned |-> returned,
     prevUpdated |-> {}, answered |-> FALSE, errors |-> 0,
     failed |-> {}, reported |-> {}]

\* The store in which the first user has the zone and nobody else has one
StoreOf(timezone) == [u \in Users |-> IF u = 1 THEN timezone ELSE NoZone]

\* The user of the call is the user of the first row, if the store has
\* one.
InitFanOut ==
    /\ hour = FanHour
    /\ nick = [u \in Users |-> <<>>]
    /\ isRunning = FALSE
    /\ intervalId = "null"
    /\ initialTimeoutId = "undefined"
    /\ sweeps = << >>
    /\ lastDone = NoSweep
    /\ lastCall = "none"
    /\ fmt = NoFmt
    /\ event = NoEvent
    /\ fleet = NoFleet
    /\ pass = NoPass
    /\ clear = NoClear
    /\ logCall = NoLogCall
    /\ startCall = NoStartCall
    /\ \E n \in 0..MaxServers : members \in [1..n -> Guilds]
    /\ \E userId \in FanUsers, timezone \in FanZones :
          /\ users \in {StoreEmpty, StoreOf(timezone)}
          /\ call = [NewCall(userId, timezone, 1, <<>>) EXCEPT
                       !.pc = "getUsers", !.before = members]

\* SELECT server_id FROM user_servers WHERE user_id = ?
getUserServers == [n \in 1..Len(members) |-> n]

\* The outcome of one server on shard sh, acc being the guilds, the results
\* and the count of the shard so far.
Entry(serverId, status, old, new) ==
    [serverId |-> serverId, status |-> status, oldNickname |-> old, newNickname |-> new]

\* A faulty loop body that looks at the permissions before the owner.
ProcessServer_PermissionsFirst(sh, serverId, acc) ==
    LET guild == acc.members[serverId]
    IN  IF guild.shard # sh \/ ~guild.present THEN acc
        ELSE IF ~guild.manageable
        THEN [acc EXCEPT !.results = Append(@, Entry(serverId, "skipped_permissions", <<>>, <<>>))]
        ELSE IF guild.owner
        THEN [acc EXCEPT !.results = Append(@, Entry(serverId, "skipped_owner", <<>>, <<>>))]
        ELSE [acc EXCEPT !.results = Append(@, Entry(serverId, "no_change", <<>>, <<>>))]

\* The body of the loop over userServers that the shard evaluates.
ProcessServer(sh, serverId, acc) ==
    LET guild == acc.members[serverId]
    IN  IF guild.shard # sh THEN acc
        ELSE IF ~guild.present THEN acc
        ELSE IF guild.owner
        THEN [acc EXCEPT !.results = Append(@, Entry(serverId, "skipped_owner", <<>>, <<>>))]
        ELSE IF ~guild.manageable
        THEN [acc EXCEPT !.results = Append(@, Entry(serverId, "skipped_permissions", <<>>, <<>>))]
        ELSE LET currentNickname == IF guild.nickname # <<>> THEN guild.nickname
                                    ELSE FanUsername
                 cleanNickname   == removeTimezoneFromNickname(currentNickname)
                 newNickname     == formatNicknameWithTimezone(
                                        IF cleanNickname = FanUsername THEN <<>>
                                        ELSE cleanNickname,
                                        call.timezone, FanUsername, call.userId, hour)
             IN  IF newNickname.ok /\ newNickname.value # currentNickname
                 THEN IF guild.fails
                      THEN [acc EXCEPT !.results =
                               Append(@, Entry(serverId, "error", <<>>, <<>>))]
                      ELSE [acc EXCEPT
                               !.members[serverId].nickname = newNickname.value,
                               !.results = Append(@, Entry(serverId, "updated",
                                                           currentNickname,
                                                           newNickname.value)),
                               !.count = @ + 1]
                 ELSE [acc EXCEPT !.results =
                          Append(@, Entry(serverId, "no_change", <<>>, <<>>))]

\* A faulty loop that a failed setNickname ends.
RECURSIVE ShardLoop_AbortsOnError(_, _, _)
ShardLoop_AbortsOnError(sh, n, acc) ==
    IF n > Len(call.userServers) THEN acc
    ELSE LET next == ProcessServer(sh, call.userServers[n], acc)
         IN  IF next.results # acc.results /\ next.results[Len(next.results)].status = "error"
             THEN next
             ELSE ShardLoop_AbortsOnError(sh, n + 1, next)

\* for (const serverId of userServers), from position n on
RECURSIVE ShardLoop(_, _, _)
ShardLoop(sh, n, acc) ==
    IF n > Len(call.userServers) THEN acc
    ELSE ShardLoop(sh, n + 1, ProcessServer(sh, call.userServers[n], acc))

\* The entries of a shard's results that report an update
Updated(results) == SelectSeq(results, LAMBDA e : e.status = "updated")

\* The outcomes of all shards that report an update
UpdatedOutcomes ==
    { e \in UNION { { call.results[sh][n] : n \in 1..Len(call.results[sh]) } :
                       sh \in Shards } : e.status = "updated" }

\* The results the aggregation awaits the logger for, shard after shard
RECURSIVE AuditQueue(_, _)
AuditQueue(c, sh) ==
    IF sh \notin Shards THEN <<>>
    ELSE (IF c.counts[sh] > 0 THEN Updated(c.results[sh]) ELSE <<>>)
         \o AuditQueue(c, sh + 1)

\* totalUpdatedCount after the loop over the shard results
RECURSIVE TotalCount(_, _)
TotalCount(c, sh) ==
    IF sh \notin Shards THEN 0
    ELSE (IF c.counts[sh] > 0 THEN c.counts[sh] ELSE 0) + TotalCount(c, sh + 1)

\* The call returns value.
Return(c, value) ==
    [c EXCEPT !.pc = "returned", !.returned = Append(@, value)]

\* updateUsersForDSTChanges: getUsersInTimezone(timezone) resolves; a zone
\* without users is passed over (continue), for the user of a zone with
\* one user updateUserNicknamesForDST is called.
GetUsersResolves ==
    /\ call.pc = "getUsers"
    /\ LET usersInTimezone == getUsersInTimezone(call.timezone)
       IN  call' = IF Len(usersInTimezone) = 0 THEN [call EXCEPT !.pc = "skipped"]
                   ELSE [call EXCEPT !.pc = "getServers"]
    /\ UNCHANGED <<schedVars, members, fmt, event, fleet, pass, clear, logCall, startCall>>

\* getUsersInTimezone rejects: the catch around the zone reports the error
\* and the zone is given up.
GetUsersRejects ==
    /\ call.pc = "getUsers"
    /\ call' = [call EXCEPT !.pc = "zoneFailed", !.errors = @ + 1]
    /\ UNCHANGED <<schedVars, members, fmt, event, fleet, pass, clear, logCall, startCall>>

\* A faulty call that deletes the row of a user it finds without servers.
GetServersOk_DropsOrphan ==
    /\ call.pc = "getServers"
    /\ call' = IF Len(getUserServers) = 0
               THEN Return([call EXCEPT !.answered = TRUE], 0)
               ELSE [call EXCEPT !.pc = "broadcast", !.userServers = getUserServers,
                                 !.answered = TRUE]
    /\ users' = IF Len(getUserServers) = 0 THEN StoreEmpty ELSE users
    /\ UNCHANGED <<hour, nick, isRunning, intervalId, initialTimeoutId, sweeps,
                   lastDone, lastCall, members, fmt, event, fleet, pass, clear, logCall, startCall>>

\* A faulty call that broadcasts to the shards even without servers.
GetServersOk_NoEmptyCheck ==
    /\ call.pc = "getServers"
    /\ call' = [call EXCEPT !.pc = "broadcast", !.userServers = getUserServers,
                            !.answered = TRUE]
    /\ UNCHANGED <<schedVars, members, fmt, event, fleet, pass, clear, logCall, startCall>>

\* getUserServers resolves: without servers the call returns 0, otherwise
\* the loop is broadcast to the shards.
GetServersOk ==
    /\ call.pc = "getServers"
    /\ call' = IF Len(getUserServers) = 0
               THEN Return([call EXCEPT !.answered = TRUE], 0)
               ELSE [call EXCEPT !.pc = "broadcast", !.userServers = getUserServers,
                                 !.answered = TRUE]
    /\ UNCHANGED <<schedVars, members, fmt, event, fleet, pass, clear, logCall, startCall>>

\* getUserServers rejects: the catch of the call reports the error and
\* returns 0.
GetServersFail ==
    /\ call.pc = "getServers"
    /\ call' = Return([call EXCEPT !.errors = @ + 1], 0)
    /\ UNCHANGED <<schedVars, members, fmt, event, fleet, pass, clear, logCall, startCall>>

\* Shard sh evaluates the loop and returns its results.  A shard that has
\* not got to it when broadcastEval rejects for another shard evaluates it
\* all the same, after the call returned.
ShardRuns(sh) ==
    /\ \/ call.pc = "broadcast"
       \/ call.pc = "returned" /\ call.failed # {}
    /\ sh \notin call.ran \cup call.failed
    /\ LET acc == ShardLoop(sh, 1, [members |-> members, results |-> <<>>, count |-> 0])
       IN  /\ members' = acc.members
           /\ call' = [call EXCEPT !.ran = @ \cup {sh},
                                   !.results[sh] = acc.results,
                                   !.counts[sh] = acc.count]
    /\ UNCHANGED <<schedVars, fmt, event, fleet, pass, clear, logCall, startCall>>

\* The evaluation on shard sh rejects before its loop (the process of the
\* shard is not up, or the shipped code does not load there).
ShardFails(sh) ==
    /\ call.pc = "broadcast"
    /\ sh \notin call.ran \cup call.failed
    /\ call' = [call EXCEPT !.failed = @ \cup {sh}]
    /\ UNCHANGED <<schedVars, members, fmt, event, fleet, pass, clear, logCall, startCall>>

\* broadcastEval rejects as soon as one shard's evaluation rejected: the
\* catch of the call reports the error and returns 0.
BroadcastRejects ==
    /\ call.pc = "broadcast"
    /\ call.failed # {}
    /\ call' = Return([call EXCEPT !.errors = @ + 1, !.reported = call.ran], 0)
    /\ UNCHANGED <<schedVars, members, fmt, event, fleet, pass, clear, logCall, startCall>>

\* A faulty aggregation that adds up the count of the first shard only.
BroadcastResolves_FirstShardOnly ==
    /\ call.pc = "broadcast"
    /\ call.ran = Shards
    /\ LET queue == AuditQueue(call, 0)
           c     == [call EXCEPT !.total = call.counts[0], !.queue = queue,
                                 !.reported = Shards]
       IN  call' = IF queue = <<>> THEN Return(c, c.total)
                   ELSE [c EXCEPT !.pc = "audit", !.k = 1,
                                  !.audits = Append(@, queue[1])]
    /\ UNCHANGED <<schedVars, members, fmt, event, fleet, pass, clear, logCall, startCall>>

\* broadcastEval resolves with the results of all shards: the counts are
\* added up and the logger is called, and awaited, for the first update;
\* without an update the call returns.
BroadcastResolves ==
    /\ call.pc = "broadcast"
    /\ call.ran = Shards
    /\ LET queue == AuditQueue(call, 0)
           c     == [call EXCEPT !.total = TotalCount(call, 0), !.queue = queue,
                                 !.reported = Shards]
       IN  call' = IF queue = <<>> THEN Return(c, c.total)
                   ELSE [c EXCEPT !.pc = "audit", !.k = 1,
                                  !.audits = Append(@, queue[1])]
    /\ UNCHANGED <<schedVars, members, fmt, event, fleet, pass, clear, logCall, startCall>>

\* logger.logNicknameUpdate resolves, with a message id or with null: the
\* logger is called for the next update, or the call returns the total.
AuditResolves ==
    /\ call.pc = "audit"
    /\ call' = IF call.k < Len(call.queue)
               THEN [call EXCEPT !.k = @ + 1,
                                 !.audits = Append(@, call.queue[call.k + 1])]
               ELSE Return(call, call.total)
    /\ UNCHANGED <<schedVars, members, fmt, event, fleet, pass, clear, logCall, startCall>>

\* The same call is made again, once the shards are done with the call
\* before.
CallAgain ==
    /\ call.pc = "returned"
    /\ call.run < MaxRuns
    /\ call.failed # {} => call.ran \cup call.failed = Shards
    /\ call' = [NewCall(call.userId, call.timezone, call.run + 1, call.returned)
                  EXCEPT !.prevUpdated = IF call.failed # {} THEN {}
                                         ELSE { e.serverId : e \in UpdatedOutcomes }]
    /\ UNCHANGED <<schedVars, members, fmt, event, fleet, pass, clear, logCall, startCall>>

NextFanOut ==
    \/ GetUsersResolves
    \/ GetUsersRejects
    \/ GetServersOk
    \/ GetServersFail
    \/ \E sh \in Shards : ShardRuns(sh)
    \/ \E sh \in Shards : ShardFails(sh)
    \/ BroadcastResolves
    \/ BroadcastRejects
    \/ AuditResolves
    \/ CallAgain

SpecFanOut == InitFanOut /\ [][NextFanOut]_vars

----------------------------------------------------------------------------
(* Properties of the scheduler *)

\* The sweeps a step begins
Begun == InFlight' \ InFlight

\* C1: between hour boundaries no sweep begins; at an hour boundary reached
\* while the service is running exactly one sweep begins and the interval
\* is armed afterwards (the first wake arms it, later ticks keep it); at a
\* boundary reached while it is not running none begins.
C1_OneSweepPerTick ==
    [][ /\ hour' = hour => Begun = {}
        /\ (hour' = hour + 1 /\ isRunning) => (Begun = {hour'} /\ intervalId' = "armed")
        /\ (hour' = hour + 1 /\ ~isRunning) => Begun = {}
        /\ initialTimeoutId = "pending" /\ hour' = hour + 1
              => sweeps'[hour'].by = "timeout" ]_vars

\* A sweep begun by the first wake is in flight together with the sweep
\* the interval began one hour later.
C1_Witness ==
    \E a \in InFlight : /\ a + 1 \in InFlight
                        /\ sweeps[a].by = "timeout"
                        /\ sweeps[a + 1].by = "interval"

\* C2: start() called while the service is running changes neither
\* isRunning nor a timer handle nor the sweeps in flight, and at no time is
\* a one-shot timer pending together with an armed interval.
C2_StartIdempotent ==
    [][ /\ (lastCall' = "start" /\ isRunning)
              => UNCHANGED <<isRunning, intervalId, initialTimeoutId, sweeps>>
        /\ ~(initialTimeoutId' = "pending" /\ intervalId' = "armed") ]_vars

\* start() has just been called on a service whose interval is armed.
C2_Witness == lastCall = "start" /\ isRunning /\ intervalId = "armed"

\* C3: stop() leaves the service not running with no timer alive; on a
\* stopped service it changes nothing; while the service is not running no
\* timer is alive and no hour boundary begins a sweep.
C3_StopCancels ==
    [][ /\ lastCall' = "stop"
              => (~isRunning' /\ intervalId' # "armed" /\ initialTimeoutId' # "pending")
        /\ (lastCall' = "stop" /\ ~isRunning)
              => UNCHANGED <<isRunning, intervalId, initialTimeoutId, sweeps, nick>>
        /\ ~isRunning' => (intervalId' # "armed" /\ initialTimeoutId' # "pending")
        /\ (~isRunning /\ hour' = hour + 1) => Begun = {} ]_vars

\* stop() cancelled the pending one-shot timer, and an hour boundary has
\* passed since without any sweep having begun.
C3_Witness ==
    /\ ~isRunning
    /\ initialTimeoutId = "null"
    /\ hour >= 1
    /\ InFlight = {}
    /\ lastDone.pc = "none"

\* C4: stop() leaves every sweep in flight and every nickname as it is; a
\* sweep leaves the set of sweeps in flight only by returning from
\* checkDSTChanges, never through a call of start() or stop().
C4_StopKeepsSweeps ==
    [][ /\ lastCall' = "stop" => (sweeps' = sweeps /\ nick' = nick)
        /\ \A s \in InFlight \ InFlight' :
              /\ lastCall' = "none"
              /\ lastDone'.id = s
              /\ lastDone'.pc \in {"done", "empty", "failed"} ]_vars

\* A sweep has written a nickname while the service was stopped.
C4_Witness ==
    \/ lastDone.lateWrites > 0
    \/ \E s \in InFlight : sweeps[s].lateWrites > 0

\* C5: the interval callback begins a sweep at every tick, also while
\* earlier sweeps are in flight, and these stay in flight.
C5_NoInFlightGuard ==
    [][ (hour' = hour + 1 /\ intervalId = "armed" /\ initialTimeoutId # "pending")
            => (hour' \in InFlight' /\ InFlight \subseteq InFlight') ]_vars

\* Two sweeps are in flight, the later one begun by the interval.
C5_Witness ==
    \E a, b \in InFlight : a < b /\ sweeps[b].by = "interval"

----------------------------------------------------------------------------
(* Properties of one sweep *)

Range(seq) == { seq[n] : n \in 1..Len(seq) }

\* The sweeps in flight and the one that returned last
Records == { sweeps[s] : s \in InFlight } \cup {lastDone}

\* The zones a sweep has called the detector on
Checked(rec) == { rec.tzs[n] : n \in 1..Min(rec.i, Len(rec.tzs)) }

\* The zones a sweep has called the fan-out for
Fanned(rec) == SubSeq(rec.toUpdate, 1, rec.j)

\* The local hour of a valid zone at the instant ts
LocalHour(z, ts) == (ts + ZoneOffset(z, ts)) % HoursPerDay

\* The offset of zone z changed between the instant ts and the instant
\* one day earlier that shows the same local time.
ChangedSinceYesterday(z, ts) ==
    \E earlier \in (ts - HoursPerDay - 2)..(ts - HoursPerDay + 2) :
        /\ earlier + ZoneOffset(z, earlier) = ts + ZoneOffset(z, ts) - HoursPerDay
        /\ ZoneOffset(z, earlier) # ZoneOffset(z, ts)

\* It is 5 am in zone z and its offset is not the one of yesterday 5 am.
Transitioned(z, ts) ==
    IsValidZone(z) /\ LocalHour(z, ts) = CheckHour /\ ChangedSinceYesterday(z, ts)

\* C6: at every point of a sweep the zones the fan-out was called for are
\* the first zones for which the detector computed true, in that order,
\* and no other zone; when the sweep returns the fan-out was called for
\* every one of them, and for none if the detector found none.
C6_FanOutExactlyDetected ==
    \A rec \in Records :
        /\ Fanned(rec) = SubSeq(rec.hits, 1, rec.j)
        /\ rec.j <= Len(rec.hits)
        /\ rec.pc = "done" => rec.j = Len(rec.hits)

\* A sweep returned after fanning out for the zones that transitioned and
\* not for another zone it checked.
C6_Witness ==
    /\ lastDone.pc = "done"
    /\ lastDone.j >= 1
    /\ Range(lastDone.tzs) \ Range(Fanned(lastDone)) # {}

\* C7 (as claimed): a sweep that ran to its end has called the detector on
\* every timezone that has a user in the store.
C7_EveryZoneChecked ==
    lastDone.pc = "done" => InUse \subseteq Checked(lastDone)

\* C8: at every hour and for every zone, checkTimezoneForDST returns true
\* exactly when it is 5 am in the zone and the offset differs from the one
\* of a day earlier at the same local time; when it is not 5 am (or the
\* zone does not resolve) the offsets are not compared.
C8_DetectorExact ==
    \A z \in Zones :
        LET r == checkTimezoneForDST(z, hour)
        IN  /\ r.result <=> Transitioned(z, hour)
            /\ (~IsValidZone(z) \/ LocalHour(z, hour) # CheckHour) => ~r.compared

\* A sweep is suspended in the detector call that has just found a change,
\* having passed over a zone where it is not 5 am.
C8_Witness ==
    \E s \in InFlight :
        /\ sweeps[s].pc = "logDetect"
        /\ Transitioned(sweeps[s].tzs[sweeps[s].i], hour)
        /\ \E n \in 1..(sweeps[s].i - 1) :
              /\ IsValidZone(sweeps[s].tzs[n])
              /\ LocalHour(sweeps[s].tzs[n], hour) # CheckHour

\* C9 (as claimed): a sweep that ran from begin to end within its hour has
\* detected every zone in use whose offset changed and where it is 5 am.
C9_EveryChangeDetected ==
    (lastDone.pc = "done" /\ lastDone.id = hour)
        => \A z \in InUse : Transitioned(z, hour) => z \in Range(lastDone.hits)

\* C10: a zone that cannot be resolved is never taken for transitioned and
\* never ends the sweep: only a failed store query leads to the outer
\* catch, the fan-out and the return come after the detector was called on
\* every zone of the list, and a sweep that ran within its hour has
\* detected every transitioned zone of its list and fanned out for it.
C10_ErrorIsolated ==
    \A rec \in Records :
        /\ \A z \in Range(rec.hits) : IsValidZone(z)
        /\ rec.pc \in {"logError", "failed"} => rec.tzs = <<>>
        /\ rec.pc \in {"getUsers", "update", "logDST", "logDone", "done"}
              => rec.i = Len(rec.tzs) + 1
        /\ (rec.pc = "done" /\ rec.id = hour)
              => /\ \A z \in Range(rec.tzs) : Transitioned(z, hour) => z \in Range(rec.hits)
                 /\ rec.j = Len(rec.hits)

\* A sweep returned that passed over an unresolvable zone, then detected a
\* later zone of its list and fanned out for it.
C10_Witness ==
    /\ lastDone.pc = "done"
    /\ \E m, n \in 1..Len(lastDone.tzs) :
          /\ m < n
          /\ ~IsValidZone(lastDone.tzs[m])
          /\ lastDone.tzs[n] \in Range(Fanned(lastDone))

\* The handles and the flag of the scheduler
scheduler == <<isRunning, intervalId, initialTimeoutId>>

\* C11: a sweep whose getStats() query fails goes to the error log with
\* nothing else changed, stays there until the log call resolves and then
\* returns as failed, having called the detector on no zone and fanned out
\* for none; none of these steps changes isRunning, a timer handle or a
\* nickname, and the next boundary of a running, armed scheduler begins a
\* sweep.
C11_StatsFailureContained ==
    [][ /\ \A s \in InFlight \cap InFlight' :
              /\ (sweeps[s].pc = "getStats" /\ sweeps'[s].pc = "logError")
                    => /\ sweeps'[s] = [sweeps[s] EXCEPT !.pc = "logError"]
                       /\ UNCHANGED <<scheduler, nick>>
              /\ sweeps[s].pc = "logError" => sweeps'[s] = sweeps[s]
        /\ \A s \in InFlight \ InFlight' :
              sweeps[s].pc = "logError"
                 => /\ lastDone'.pc = "failed"
                    /\ lastDone'.id = s
                    /\ lastDone'.tzs = <<>> /\ lastDone'.i = 0
                    /\ lastDone'.hits = <<>> /\ lastDone'.j = 0
                    /\ UNCHANGED <<scheduler, nick>>
        /\ (isRunning /\ intervalId = "armed" /\ hour' = hour + 1)
              => (hour' \in InFlight' /\ sweeps'[hour'].pc = "getStats") ]_vars

\* A sweep failed on its query, the scheduler is still running with its
\* interval armed, and a later boundary has begun a sweep.
C11_Witness ==
    /\ lastDone.pc = "failed"
    /\ isRunning
    /\ intervalId = "armed"
    /\ \E s \in InFlight : s > lastDone.id

\* C12: a sweep ends as "empty" only when no timezone is in use, and then
\* it has called the detector on no zone and fanned out for none; it is
\* never suspended on the way.  With no timezone in use no sweep gets to
\* the detector or the fan-out and no nickname is written.
C12_EmptySetEndsSweep ==
    /\ \A s \in InFlight : sweeps[s].pc # "empty"
    /\ lastDone.pc = "empty"
          => /\ InUse = {}
             /\ lastDone.tzs = <<>> /\ lastDone.i = 0
             /\ lastDone.hits = <<>> /\ lastDone.toUpdate = <<>> /\ lastDone.j = 0
    /\ InUse = {}
          => /\ \A rec \in Records :
                   rec.pc \in {"none", "getStats", "empty", "logError", "failed"}
             /\ \A u \in Users : nick[u] = <<>>

\* A sweep over a store without users has returned at once.
C12_Witness == lastDone.pc = "empty" /\ hour = lastDone.id

----------------------------------------------------------------------------
(* Properties of the formatting functions *)

\* The base name a formatting starts from: the input, or the username for
\* an empty input, without its annotation and trimmed
FmtBase ==
    removeTimezoneFromNickname(IF FmtInput # <<>> THEN FmtInput ELSE FormatUsername)

\* result is base, cut from the right where needed, followed by the whole
\* annotation of label, and it fills the limit exactly when it was cut.
FitsLimit(result, base, label) ==
    LET annotation == <<" ", "(">> \o label \o <<")">>
        kept       == Len(result) - Len(annotation)
    IN  /\ Len(result) <= NickLimit
        /\ kept >= 0
        /\ kept <= Len(base)
        /\ result = SubSeq(base, 1, kept) \o annotation
        /\ kept < Len(base) => Len(result) = NickLimit

\* C19: every result of formatNicknameWithTimezone that is not null, of the
\* service function and of the function the shards evaluate, is at most 32
\* characters long and is the base name followed by the whole annotation;
\* the base name is cut from the right only when the whole would be longer
\* than 32, and then the result is exactly 32 characters long.  40 'A'
\* with UTC-5 give 24 'A' and " (UTC-5)".
C19_LengthAndAnnotation ==
    fmt.stage \in {"formatted", "stripped", "again"}
       => /\ fmt.svc.ok
                => FitsLimit(fmt.svc.value, FmtBase, getCurrentOffset(fmt.tz, hour).label)
          /\ fmt.out.ok
                => FitsLimit(fmt.out.value, FmtBase,
                             IF fmt.uid = SpecialUserId THEN SpecialLabel
                             ELSE getCurrentOffset(fmt.tz, hour).label)
          /\ (fmt.name = Name(40, 0) /\ fmt.suffix = <<>> /\ fmt.tz = "Fixed/B")
                => fmt.svc.value = Name(24, 0) \o <<" ", "(", "U", "T", "C", "-", "5", ")">>

\* 40 'A' have been formatted with UTC-5: the result is 32 characters long.
C19_Witness ==
    /\ fmt.stage = "formatted"
    /\ fmt.name = Name(40, 0) /\ fmt.suffix = <<>> /\ fmt.tz = "Fixed/B"
    /\ fmt.uid = NoUser
    /\ fmt.out.ok
    /\ Len(fmt.out.value) = NickLimit

\* C20 (as claimed): a base name without an annotation, formatted, then
\* stripped and formatted again with the same timezone, gives what the
\* first formatting gave.
C20_RoundTrip ==
    (/\ fmt.stage = "again"
     /\ fmt.suffix = <<>>
     /\ fmt.name # <<>>
     /\ trim(fmt.name) = fmt.name
     /\ ~hasTimezoneInfo(fmt.name))
       => fmt.svcAgain = fmt.svc

----------------------------------------------------------------------------
(* Properties of the fan-out *)

\* The servers of the list whose guild shard sh holds and whose member it
\* can fetch, as the call found them
Hosted(sh) ==
    SelectSeq(call.userServers,
              LAMBDA n : call.before[n].shard = sh /\ call.before[n].present)

\* The server ids of a shard's results
ServerIds(results) == [n \in 1..Len(results) |-> results[n].serverId]

\* C13: the results of a shard have one entry for every server of the list
\* that the shard holds and whose member it finds, in the order of the
\* list, and none for another server; the entry of a guild the user owns is
\* skipped_owner whether the member is manageable or not, the entry of a
\* guild of another owner with a member that is not manageable is
\* skipped_permissions, and every other entry is no_change, updated or
\* error.
C13_PolicyOrder ==
    \A sh \in call.ran :
        /\ ServerIds(call.results[sh]) = Hosted(sh)
        /\ \A e \in Range(call.results[sh]) :
              LET guild == call.before[e.serverId]
              IN  /\ guild.owner => e.status = "skipped_owner"
                  /\ (~guild.owner /\ ~guild.manageable) => e.status = "skipped_permissions"
                  /\ (~guild.owner /\ guild.manageable)
                        => e.status \in {"no_change", "updated", "error"}

\* All shards have evaluated the loop: a guild that the user owns and where
\* the member is not manageable is reported as skipped_owner, and a server
\* of the list has no entry on any shard.
C13_Witness ==
    /\ call.pc # "none"
    /\ call.ran = Shards
    /\ \E sh \in Shards : \E e \in Range(call.results[sh]) :
          /\ e.status = "skipped_owner"
          /\ ~call.before[e.serverId].manageable
    /\ \E n \in Range(call.userServers) :
          \A sh \in Shards : n \notin Range(ServerIds(call.results[sh]))

\* C14: an error entry is the entry of a guild whose setNickname rejects,
\* the nickname there is as the call found it, and the entry does not
\* count: the count of a shard is the number of its updated entries and no
\* guild whose setNickname rejects is reported as updated.  The shard has
\* an entry for every server it holds, those after the error too.
C14_ApplyFailureIsolated ==
    \A sh \in call.ran :
        /\ call.counts[sh] = Len(Updated(call.results[sh]))
        /\ Len(call.results[sh]) = Len(Hosted(sh))
        /\ \A e \in Range(call.results[sh]) :
              /\ e.status = "error"
                    => /\ call.before[e.serverId].fails
                       /\ members[e.serverId].nickname = call.before[e.serverId].nickname
              /\ call.before[e.serverId].fails => e.status # "updated"

\* A shard reports an error for one server and an update for the next.
C14_Witness ==
    /\ call.pc # "none"
    /\ \E sh \in call.ran :
          /\ Len(call.results[sh]) = 2
          /\ call.results[sh][1].status = "error"
          /\ call.results[sh][2].status = "updated"
          /\ call.counts[sh] = 1

\* C15: the log entries emitted are entries of updated outcomes, each at
\* most once; a call that got the results of the shards returns the number
\* of updated outcomes of all shards, having emitted exactly one log entry
\* for each of them.
C15_CountAndAudit ==
    call.pc # "none"
       => /\ \A m, n \in 1..Len(call.audits) :
                /\ call.audits[m] \in UpdatedOutcomes
                /\ call.audits[m] = call.audits[n] => m = n
          /\ (call.pc = "returned" /\ call.ran = Shards)
                => /\ call.returned[Len(call.returned)] = Cardinality(UpdatedOutcomes)
                   /\ Len(call.audits) = Cardinality(UpdatedOutcomes)

\* A call returned 1 with one log entry: the user owns a guild of one shard
\* and was updated in a guild of the other.
C15_Witness ==
    /\ call.pc = "returned"
    /\ call.ran = Shards
    /\ call.returned[Len(call.returned)] = 1
    /\ Len(call.audits) = 1
    /\ \E sh \in Shards :
          /\ \E e \in Range(call.results[sh]) : e.status = "skipped_owner"
          /\ \E e \in Range(call.results[1 - sh]) :
                e.status = "updated" /\ e = call.audits[1]

\* C16 (as claimed): the call never waits for the emission of an audit
\* log entry to complete, so that an emission that does not complete cannot
\* keep it from returning.
C16_NeverWaitsForAudit == call.pc # "audit"

C18_SecondRunWritesNothing ==
    (call.pc # "none" /\ call.run >= 2)
       => \A sh \in call.ran : \A e \in Range(call.results[sh]) :
             e.serverId \in call.prevUpdated => e.status = "no_change"

----------------------------------------------------------------------------
(* Base name, the pinned user and the two copies of the transformation     *)

\* The base the formatted nickname is built on when the stripped display
\* name decides it: the stripped name, the username when that is empty.
StrippedBase(currentNickname, username) ==
    LET stripped == removeTimezoneFromNickname(currentNickname)
    IN  IF stripped = <<>> THEN username ELSE stripped

\* The nickname a base and a label give within the limit of 32 characters
Annotated(base, label) ==
    IF Len(Compose(base, label)) > NickLimit
    THEN Compose(substring(base, NickLimit - Len(label) - 3), label)
    ELSE Compose(base, label)

\* C21: the base name of a formatted nickname is the stripped current
\* display name, and the provided username whenever the stripped name is
\* empty (no nickname, or a nickname that is an annotation only).
C21_BaseIsStrippedNameOrUsername ==
    (fmt.stage = "formatted" /\ fmt.svc.ok /\ trim(FmtInput) = FmtInput) =>
        fmt.svc.value = Annotated(StrippedBase(FmtInput, FormatUsername),
                                  getCurrentOffset(fmt.tz, hour).label)

\* C22: for the pinned user every place that derives a nickname, the code
\* of the shards and the service the trigger and the set action call,
\* gives the stripped base followed by " (UTC+Del)" whatever the timezone.
C22_PinnedUserAlwaysDel ==
    (fmt.stage = "formatted" /\ fmt.uid = SpecialUserId
                             /\ trim(FmtInput) = FmtInput) =>
        LET expected == Annotated(IF FmtInput # <<>>
                                  THEN removeTimezoneFromNickname(FmtInput)
                                  ELSE FormatUsername, SpecialLabel)
        IN  /\ fmt.out.ok /\ fmt.out.value = expected
            /\ fmt.svc.ok /\ fmt.svc.value = expected

\* C23: the transformation of the shards and the one of the timezone
\* service return the same result for every display name, timezone,
\* username and subject id.
C23_SameFunctionEverywhere ==
    (fmt.stage = "formatted" /\ trim(FmtInput) = FmtInput) => fmt.out = fmt.svc

----------------------------------------------------------------------------
(* The drift-correction trigger: the handler of one GuildMemberUpdate      *)
(* event.  It awaits the lookup of the user's row, then decides without    *)
(* leaving the process whether to call setNickname, awaits that call and   *)
(* then the logger.                                                        *)

PlainNick == <<"B", "o">>
PinnedNick == FanUsername \o <<" ", "(">> \o SpecialLabel \o <<")">>

\* member.nickname before and after the event (<<>>: none)
TriggerNicks == {<<>>, PlainNick, StaleNick, PinnedNick, LongNick}

\* What users holds for the user of the event: no row, a row with a zone
\* the zone database knows, a row with one it does not know
TriggerRows == {NoZone, "Fixed/B", "Invalid/Timezone"}

InitTrigger ==
    /\ hour = FanHour
    /\ users = StoreEmpty
    /\ nick = [u \in Users |-> <<>>]
    /\ isRunning = FALSE
    /\ intervalId = "null"
    /\ initialTimeoutId = "undefined"
    /\ sweeps = << >>
    /\ lastDone = NoSweep
    /\ lastCall = "none"
    /\ members = << >>
    /\ call = NoCall
    /\ fmt = NoFmt
    /\ event = NoEvent
    /\ fleet = NoFleet
    /\ pass = NoPass
    /\ clear = NoClear
    /\ logCall = NoLogCall
    /\ startCall = NoStartCall

\* The handler as it stops: nothing more is awaited.
EventDone(ev) == [ev EXCEPT !.pc = "done"]

\* execute(oldMember, newMember) is entered: it returns at once when the
\* nickname did not change and otherwise awaits getUserTimezone.  The
\* guild owner is never manageable.  History: looked is whether the lookup
\* answered, calls the arguments of the setNickname calls made, nickname
\* the member's nickname, logged the log entries.
MemberUpdate ==
    /\ event.pc = "none"
    /\ \E old \in TriggerNicks, new \in TriggerNicks, row \in TriggerRows,
          userId \in FanUsers, owner \in BOOLEAN, manageable \in BOOLEAN,
          fails \in BOOLEAN :
          /\ owner => ~manageable
          /\ event' = [pc |-> IF old # new THEN "lookup" ELSE "done",
                       oldNickname |-> old, newNickname |-> new, row |-> row,
                       userId |-> userId, owner |-> owner,
                       manageable |-> manageable, fails |-> fails,
                       looked |-> FALSE, pending |-> <<>>, calls |-> <<>>,
                       nickname |-> new, logged |-> <<>>]
    /\ UNCHANGED <<schedVars, members, call, fmt, fleet, pass, clear, logCall, startCall>>

\* A faulty handler that does not look for the annotation in the new
\* display name.
LookupResolves_IgnoresAnnotation ==
    /\ event.pc = "lookup"
    /\ LET ev == [event EXCEPT !.looked = TRUE]
           newNicknameWithTz ==
               serviceFormatNickname(event.newNickname, event.row, FanUsername, hour)
       IN  event' =
               IF event.row = NoZone THEN EventDone(ev)
               ELSE IF event.owner THEN EventDone(ev)
               ELSE IF ~event.manageable THEN EventDone(ev)
               ELSE IF ~newNicknameWithTz.ok THEN EventDone(ev)
               ELSE [ev EXCEPT !.pc = "setNickname",
                               !.pending = newNicknameWithTz.value,
                               !.calls = Append(@, newNicknameWithTz.value)]
    /\ UNCHANGED <<schedVars, members, call, fmt, fleet, pass, clear, logCall, startCall>>

\* A faulty handler that does not look whether the bot can manage the
\* member.
LookupResolves_NoManageableCheck ==
    /\ event.pc = "lookup"
    /\ LET ev == [event EXCEPT !.looked = TRUE]
           currentNickname == IF event.newNickname # <<>> THEN event.newNickname
                              ELSE FanUsername
           newNicknameWithTz ==
               serviceFormatNickname(event.newNickname, event.row, FanUsername, hour)
       IN  event' =
               IF event.row = NoZone THEN EventDone(ev)
               ELSE IF hasTimezoneInfo(currentNickname) THEN EventDone(ev)
               ELSE IF event.owner THEN EventDone(ev)
               ELSE IF ~newNicknameWithTz.ok THEN EventDone(ev)
               ELSE [ev EXCEPT !.pc = "setNickname",
                               !.pending = newNicknameWithTz.value,
                               !.calls = Append(@, newNicknameWithTz.value)]
    /\ UNCHANGED <<schedVars, members, call, fmt, fleet, pass, clear, logCall, startCall>>

\* getUserTimezone answers with the user's row and the handler runs up to
\* its next await: no row, an annotation in the display name, the owner, a
\* member out of reach or a nickname that cannot be derived end it; the
\* service function is called with the user id as a fourth argument, which
\* it does not take.  Otherwise setNickname is called.
LookupResolves ==
    /\ event.pc = "lookup"
    /\ LET ev == [event EXCEPT !.looked = TRUE]
           currentNickname == IF event.newNickname # <<>> THEN event.newNickname
                              ELSE FanUsername
           newNicknameWithTz ==
               serviceFormatNickname(event.newNickname, event.row, FanUsername, hour)
       IN  event' =
               IF event.row = NoZone THEN EventDone(ev)
               ELSE IF hasTimezoneInfo(currentNickname) THEN EventDone(ev)
               ELSE IF event.owner THEN EventDone(ev)
               ELSE IF ~event.manageable THEN EventDone(ev)
               ELSE IF ~newNicknameWithTz.ok THEN EventDone(ev)
               ELSE [ev EXCEPT !.pc = "setNickname",
                               !.pending = newNicknameWithTz.value,
                               !.calls = Append(@, newNicknameWithTz.value)]
    /\ UNCHANGED <<schedVars, members, call, fmt, fleet, pass, clear, logCall, startCall>>

\* getUserTimezone rejects: the outer catch logs and the handler ends.
LookupRejects ==
    /\ event.pc = "lookup"
    /\ event' = EventDone(event)
    /\ UNCHANGED <<schedVars, members, call, fmt, fleet, pass, clear, logCall, startCall>>

\* setNickname resolves: the member has the new nickname and the handler
\* awaits logger.logNicknameUpdate.
SetNicknameResolves ==
    /\ event.pc = "setNickname"
    /\ ~event.fails
    /\ event' = [event EXCEPT !.pc = "log", !.nickname = event.pending]
    /\ UNCHANGED <<schedVars, members, call, fmt, fleet, pass, clear, logCall, startCall>>

\* setNickname rejects: the inner catch logs and the handler ends.
SetNicknameRejects ==
    /\ event.pc = "setNickname"
    /\ event.fails
    /\ event' = EventDone(event)
    /\ UNCHANGED <<schedVars, members, call, fmt, fleet, pass, clear, logCall, startCall>>

\* logger.logNicknameUpdate resolves and the handler returns.
UpdateLogged ==
    /\ event.pc = "log"
    /\ event' = [event EXCEPT !.pc = "done",
                              !.logged = Append(@, event.pending)]
    /\ UNCHANGED <<schedVars, members, call, fmt, fleet, pass, clear, logCall, startCall>>

NextTrigger ==
    \/ MemberUpdate
    \/ LookupResolves
    \/ LookupRejects
    \/ SetNicknameResolves
    \/ SetNicknameRejects
    \/ UpdateLogged

SpecTrigger == InitTrigger /\ [][NextTrigger]_vars

\* The display name of the member after the event
NewDisplayName ==
    IF event.newNickname # <<>> THEN event.newNickname ELSE FanUsername

\* The four conditions of the trigger
TriggerConditions ==
    /\ event.row # NoZone
    /\ ~hasTimezoneInfo(NewDisplayName)
    /\ ~event.owner
    /\ event.manageable

\* C24 as stated: on an event whose nickname changed and whose lookup
\* answered, the handler calls setNickname if and only if the user has an
\* assignment, the new display name lacks the annotation, the user is not
\* the owner and the member is manageable.
C24_WritesIffFourConditions ==
    (event.pc = "done" /\ event.oldNickname # event.newNickname /\ event.looked) =>
        (event.calls # <<>> <=> TriggerConditions)

\* C24 as amended: the handler calls setNickname, once and with the
\* nickname the service function derives, exactly when the nickname
\* changed, the lookup answered, the four conditions hold and the stored
\* timezone resolves; in every other case it calls nothing and the
\* member's nickname stays as the event left it.
C24_WritesIffConditionsAndDerivable ==
    event.pc = "done" =>
        LET due == /\ event.oldNickname # event.newNickname
                   /\ event.looked
                   /\ TriggerConditions
                   /\ IsValidZone(event.row)
        IN  /\ due => event.calls =
                          <<serviceFormatNickname(event.newNickname, event.row,
                                                  FanUsername, hour).value>>
            /\ ~due => event.calls = <<>> /\ event.nickname = event.newNickname
            /\ event.nickname # event.newNickname =>
                   /\ event.nickname = event.calls[1]
                   /\ hasTimezoneInfo(event.nickname)

\* An event whose four conditions hold was answered by a write that was
\* logged.
C24_Witness ==
    /\ event.pc = "done"
    /\ TriggerConditions
    /\ event.newNickname = PlainNick
    /\ Len(event.calls) = 1
    /\ event.nickname = event.calls[1]
    /\ event.logged = event.calls

----------------------------------------------------------------------------
(* Nothing to dispatch *)

\* C25: a call for a user without servers returns 0 and no shard evaluates
\* anything, and for a zone without users no call is made at all; in both
\* cases nothing is written or logged and no error is reported.
C25_NothingToDispatch ==
    /\ (call.pc = "returned" /\ call.answered /\ Len(call.before) = 0) =>
           /\ call.returned[Len(call.returned)] = 0
           /\ call.ran = {}
           /\ call.audits = <<>>
           /\ call.errors = 0
    /\ call.pc = "skipped" =>
           /\ getUsersInTimezone(call.timezone) = <<>>
           /\ ~call.answered
           /\ call.ran = {}
           /\ call.returned = <<>>
           /\ call.audits = <<>>
           /\ call.errors = 0
           /\ members = call.before

\* A call for a user without servers has returned after getUserServers
\* answered.
C25_Witness ==
    /\ call.pc = "returned"
    /\ call.run = 1
    /\ call.answered
    /\ members = << >>
    /\ call.returned = <<0>>

----------------------------------------------------------------------------
(* The rendering of offsets *)

\* The number a character stands for
DigitValue(ch) == CHOOSE d \in 0..9 : DigitChar[d + 1] = ch

IsDigit(ch) == \E d \in 0..9 : DigitChar[d + 1] = ch

\* The number a sequence of digits writes
RECURSIVE NatOf(_)
NatOf(digits) ==
    IF digits = <<>> THEN 0
    ELSE 10 * NatOf(SubSeq(digits, 1, Len(digits) - 1)) + DigitValue(digits[Len(digits)])

RECURSIVE PowerOfTen(_)
PowerOfTen(k) == IF k = 0 THEN 1 ELSE 10 * PowerOfTen(k - 1)

\* number writes the value minutes / 60: as digits only when the value is
\* whole, with a first digit that is not 0, and otherwise as digits, a
\* point and decimals that do not end in 0.
WritesHours(number, minutes) ==
    IF minutes % 60 = 0
    THEN /\ number # <<>>
         /\ \A n \in 1..Len(number) : IsDigit(number[n])
         /\ number[1] # "0"
         /\ NatOf(number) * 60 = minutes
    ELSE \E p \in 2..(Len(number) - 1) :
             LET whole    == SubSeq(number, 1, p - 1)
                 decimals == SubSeq(number, p + 1, Len(number))
             IN  /\ number[p] = "."
                 /\ \A n \in 1..Len(whole) : IsDigit(whole[n])
                 /\ \A n \in 1..Len(decimals) : IsDigit(decimals[n])
                 /\ Len(whole) > 1 => whole[1] # "0"
                 /\ decimals[Len(decimals)] # "0"
                 /\ (NatOf(whole) * PowerOfTen(Len(decimals)) + NatOf(decimals)) * 60
                        = minutes * PowerOfTen(Len(decimals))

\* C26: offset 0 renders as "UTC+0", an offset east of UTC as "UTC+N" and
\* one west of it as "UTC-N", N being the hours of the offset, written
\* without leading zero and without decimals when they are whole and as a
\* decimal number otherwise.
C26_OffsetRendering ==
    fmt.stage = "rendered" =>
        LET m == fmt.offset
        IN  IF m = 0 THEN fmt.label = <<"U", "T", "C", "+", "0">>
            ELSE /\ Len(fmt.label) > 4
                 /\ SubSeq(fmt.label, 1, 3) = <<"U", "T", "C">>
                 /\ fmt.label[4] = (IF m > 0 THEN "+" ELSE "-")
                 /\ WritesHours(SubSeq(fmt.label, 5, Len(fmt.label)),
                                IF m > 0 THEN m ELSE 0 - m)

\* The offset of five hours and three quarters was rendered.
C26_Witness ==
    /\ fmt.stage = "rendered"
    /\ fmt.offset = 345
    /\ fmt.label = <<"U", "T", "C", "+", "5", ".", "7", "5">>

----------------------------------------------------------------------------
(* Invalid identifiers *)

----------------------------------------------------------------------------
(* The fleet: one process per shard, each running TimezoneBot.start() with *)
(* a DSTService of its own.  A process awaits the database and the login;  *)
(* shard 0 then sets the timer that calls dstService.start().  A process   *)
(* that shut down or failed to start has exited and is spawned again by    *)
(* the sharding manager.                                                   *)

MaxShards == 3

FleetShards == 0..(MaxShards - 1)

\* A process at the start of TimezoneBot.start(): isRunning is the flag of
\* its DSTService and begun the number of checkDSTChanges calls its timers
\* have made.
NewProcess == [pc |-> "connect", isRunning |-> FALSE, begun |-> 0]

InitFleet ==
    /\ hour = 0
    /\ users = StoreEmpty
    /\ nick = [u \in Users |-> <<>>]
    /\ isRunning = FALSE
    /\ intervalId = "null"
    /\ initialTimeoutId = "undefined"
    /\ sweeps = << >>
    /\ lastDone = NoSweep
    /\ lastCall = "none"
    /\ members = << >>
    /\ call = NoCall
    /\ fmt = NoFmt
    /\ event = NoEvent
    /\ fleet = [sh \in FleetShards |-> NewProcess]
    /\ pass = NoPass
    /\ clear = NoClear
    /\ logCall = NoLogCall
    /\ startCall = NoStartCall

\* database.connect() resolves and the process logs in.
DatabaseConnected(sh) ==
    /\ fleet[sh].pc = "connect"
    /\ fleet' = [fleet EXCEPT ![sh].pc = "login"]
    /\ UNCHANGED <<schedVars, members, call, fmt, event, pass, clear, logCall, startCall>>

\* A faulty start-up that sets the timer on every shard.
LoggedIn_EveryShard(sh) ==
    /\ fleet[sh].pc = "login"
    /\ fleet' = [fleet EXCEPT ![sh].pc = "timer"]
    /\ UNCHANGED <<schedVars, members, call, fmt, event, pass, clear, logCall, startCall>>

\* client.login() resolves: the process of shard 0 sets the timer for
\* dstService.start(), the others are done starting.
LoggedIn(sh) ==
    /\ fleet[sh].pc = "login"
    /\ fleet' = [fleet EXCEPT ![sh].pc = IF sh = 0 THEN "timer" ELSE "ready"]
    /\ UNCHANGED <<schedVars, members, call, fmt, event, pass, clear, logCall, startCall>>

\* database.connect() or client.login() rejects: process.exit(1).
StartFails(sh) ==
    /\ fleet[sh].pc \in {"connect", "login"}
    /\ fleet' = [fleet EXCEPT ![sh].pc = "exited", ![sh].isRunning = FALSE]
    /\ UNCHANGED <<schedVars, members, call, fmt, event, pass, clear, logCall, startCall>>

\* The timer set after the login fires: dstService.start().
StartTimerFires(sh) ==
    /\ fleet[sh].pc = "timer"
    /\ fleet' = [fleet EXCEPT ![sh].pc = "ready", ![sh].isRunning = TRUE]
    /\ UNCHANGED <<schedVars, members, call, fmt, event, pass, clear, logCall, startCall>>

\* A timer of a started DSTService fires and calls checkDSTChanges.
SchedulerFires(sh) ==
    /\ fleet[sh].pc = "ready"
    /\ fleet[sh].isRunning
    /\ fleet[sh].begun < MaxSweeps
    /\ fleet' = [fleet EXCEPT ![sh].begun = @ + 1]
    /\ UNCHANGED <<schedVars, members, call, fmt, event, pass, clear, logCall, startCall>>

\* bot.shutdown(), on a signal or an uncaught error: dstService.stop() and
\* the process exits.
Shutdown(sh) ==
    /\ fleet[sh].pc \in {"timer", "ready"}
    /\ fleet' = [fleet EXCEPT ![sh].pc = "exited", ![sh].isRunning = FALSE]
    /\ UNCHANGED <<schedVars, members, call, fmt, event, pass, clear, logCall, startCall>>

\* The sharding manager spawns the process of the shard again; what the
\* earlier process of the shard has done stays on record.
Respawn(sh) ==
    /\ fleet[sh].pc = "exited"
    /\ fleet' = [fleet EXCEPT ![sh].pc = "connect"]
    /\ UNCHANGED <<schedVars, members, call, fmt, event, pass, clear, logCall, startCall>>

NextFleet ==
    \/ \E sh \in FleetShards : DatabaseConnected(sh)
    \/ \E sh \in FleetShards : LoggedIn(sh)
    \/ \E sh \in FleetShards : StartFails(sh)
    \/ \E sh \in FleetShards : StartTimerFires(sh)
    \/ \E sh \in FleetShards : SchedulerFires(sh)
    \/ \E sh \in FleetShards : Shutdown(sh)
    \/ \E sh \in FleetShards : Respawn(sh)

SpecFleet == InitFleet /\ [][NextFleet]_vars

\* C28: only the process of shard 0 ever starts its scheduler: no other
\* shard has a running DSTService, waits for the start timer or has begun
\* a sweep from a timer.
C28_OnlyCoordinatorSweeps ==
    \A sh \in FleetShards \ {0} :
        /\ ~fleet[sh].isRunning
        /\ fleet[sh].pc # "timer"
        /\ fleet[sh].begun = 0

\* Every shard is up and shard 0 has begun sweeps.
C28_Witness ==
    /\ \A sh \in FleetShards : fleet[sh].pc = "ready"
    /\ fleet[0].isRunning
    /\ fleet[0].begun = MaxSweeps

----------------------------------------------------------------------------
(* The store is only read *)

\* A guild as the store and the guild itself have it, the member's
\* nickname aside
GuildButNickname(g) == [g EXCEPT !.nickname = <<>>]

\* C29: no step of the fan-out, from the lookup of the users of the zone
\* to the return of the call, creates, modifies or deletes a timezone
\* assignment or a membership; of the guilds nothing changes but the
\* nicknames of members.
C29_StoreUnchanged ==
    [][/\ users' = users
       /\ getUserServers' = getUserServers
       /\ \A n \in 1..Len(members) :
              GuildButNickname(members'[n]) = GuildButNickname(members[n])]_vars

\* A call that wrote a nickname has returned and the user's row is as it
\* was.
C29_Witness ==
    /\ call.pc = "returned"
    /\ call.returned[Len(call.returned)] > 0
    /\ members # call.before
    /\ users = StoreOf(call.timezone)

----------------------------------------------------------------------------
(* A shard that fails *)

\* The updates of the shards whose results had come in when broadcastEval
\* settled
ReportedUpdates ==
    { e \in UNION { Range(call.results[sh]) : sh \in call.reported } :
          e.status = "updated" }

\* C30 (as claimed): a call whose dispatch got to the shards returns the
\* number of updates that the shards applied and reported, with one log
\* entry for each, also when the evaluation on another shard failed.
C30_ShardFailureIsolated ==
    (call.pc = "returned" /\ call.answered /\ call.userServers # <<>>) =>
        /\ call.returned[Len(call.returned)] = Cardinality(ReportedUpdates)
        /\ Len(call.audits) = Cardinality(ReportedUpdates)

----------------------------------------------------------------------------
(* One sweep step by step: a checkDSTChanges call begun by the timer, with  *)
(* every fan-out call it makes taken apart into its awaits (the query of    *)
(* the user's servers, the evaluation on each shard, the log entries).  The *)
(* interval timer stays armed and begins later sweeps, which are kept in    *)
(* sweeps and not followed here.  Every member can be fetched and managed   *)
(* and is not the owner, and setNickname succeeds; partition p is in the    *)
(* cache of shard p modulo the number of shards.                            *)

Partitions == 1..MaxServers

\* The most rows that are replaced while a sweep runs
MaxMoves == 1

\* The zones a user moves to while a sweep runs
MoveZones == {"Spring/Forward", "Fall/Back"}

ShardOf(serverId) == serverId % Cardinality(Shards)

\* The lists getUserServers can return: the first n partitions, no partition
\* twice (PRIMARY KEY (user_id, server_id)).
ServerLists == { [n \in 1..m |-> n] : m \in 0..MaxServers }

\* The users of a zone whose offset changes: the users a sweep can fan out
\* for, the others have no server here.
PassUsers ==
    { u \in Users : users[u] # NoZone
                      /\ ZoneRule(users[u]).before # ZoneRule(users[u]).after }

\* A checkDSTChanges call suspended at getStats(), as in NewSweep, and what
\* the fan-out calls of the sweep add to it: servers is the table
\* user_servers, annot the annotation of the member's nickname per user and
\* partition; ran, failed and counts are the shards that answered the
\* broadcast of the call in flight, those whose evaluation rejected, and
\* the localUpdatedCount of each; pending are the evaluations sent to a
\* shard and not begun (user, timezone, shard); total is totalUpdatedCount
\* and q the number of log entries still to be awaited.  History: applies
\* are the setNickname calls made (user, partition, shard), twice the
\* users and partitions for which one was made that had one before, moved
\* the users whose row was replaced since the sweep began, errors the
\* number of errors reported in a catch, dispatched the broadcasts made
\* (position of the zone, position of the user), queried the positions of
\* the zones whose users were asked for and rejected those of them whose
\* query rejected, called the updateUserNicknamesForDST calls made and
\* failedCalls those that ended in the catch.
NewPass(h, servers) ==
    NewSweep(h, "timeout") @@
    [servers |-> servers,
     annot |-> [u \in Users |-> [p \in Partitions |->
                    formatAnnotation(users[u], 0 - HoursPerDay).label]],
     ran |-> {}, failed |-> {}, counts |-> [sh \in Shards |-> 0],
     pending |-> {}, total |-> 0, q |-> 0,
     applies |-> {}, twice |-> {}, moved |-> {}, errors |-> 0,
     dispatched |-> <<>>, queried |-> <<>>, rejected |-> {},
     called |-> {}, failedCalls |-> {}]

\* The sweep was begun by the first wake at hour FanHour; the interval is
\* armed.
InitPass ==
    /\ hour = FanHour
    /\ users \in {StoreSmall, StoreOf("Spring/Forward")}
    /\ nick = [u \in Users |-> formatAnnotation(users[u], 0 - HoursPerDay).label]
    /\ isRunning = TRUE
    /\ intervalId = "armed"
    /\ initialTimeoutId = "fired"
    /\ sweeps = << >>
    /\ lastDone = NoSweep
    /\ lastCall = "none"
    /\ members = << >>
    /\ call = NoCall
    /\ fmt = NoFmt
    /\ event = NoEvent
    /\ fleet = NoFleet
    /\ clear = NoClear
    /\ logCall = NoLogCall
    /\ startCall = NoStartCall
    /\ \E servers \in [PassUsers -> ServerLists] :
          pass = NewPass(FanHour, [u \in Users |-> IF u \in PassUsers THEN servers[u]
                                                   ELSE <<>>])

\* The body of the loop over userServers on shard sh, for the call of
\* userId and timezone: a server that is not in the cache of the shard is
\* passed over; the nickname is set where the formatted one is not null
\* and differs from the current one.  (First a faulty body that does not
\* look whether the guild is in the cache of the shard.)
PassProcessServer_NoCacheCheck(userId, timezone, sh, serverId, acc) ==
    LET newNickname == formatAnnotation(timezone, hour)
    IN  IF newNickname.ok /\ newNickname.label # acc.annot[userId][serverId]
        THEN [acc EXCEPT !.annot[userId][serverId] = newNickname.label,
                         !.count = @ + 1,
                         !.twice = @ \cup { <<a[1], a[2]>> : a \in
                                        { b \in acc.applies :
                                            b[1] = userId /\ b[2] = serverId } },
                         !.applies = @ \cup {<<userId, serverId, sh>>}]
        ELSE acc

PassProcessServer(userId, timezone, sh, serverId, acc) ==
    IF ShardOf(serverId) # sh THEN acc
    ELSE LET newNickname == formatAnnotation(timezone, hour)
         IN  IF newNickname.ok /\ newNickname.label # acc.annot[userId][serverId]
             THEN [acc EXCEPT !.annot[userId][serverId] = newNickname.label,
                              !.count = @ + 1,
                              !.twice = @ \cup { <<a[1], a[2]>> : a \in
                                             { b \in acc.applies :
                                                 b[1] = userId /\ b[2] = serverId } },
                              !.applies = @ \cup {<<userId, serverId, sh>>}]
             ELSE acc

\* for (const serverId of userServers), from position n on
RECURSIVE PassShardLoop(_, _, _, _, _)
PassShardLoop(userId, timezone, sh, n, acc) ==
    IF n > Len(pass.servers[userId]) THEN acc
    ELSE PassShardLoop(userId, timezone, sh, n + 1,
                       PassProcessServer(userId, timezone, sh,
                                         pass.servers[userId][n], acc))

\* updateUserNicknamesForDST(us[k], toUpdate[j]) returned updated: the loop
\* over the users goes on, and after the last user the zone is summed up
\* (getCurrentOffset, then logDSTChange is awaited).
PassReturned(rec, updated) ==
    LET r == [rec EXCEPT !.usersUpdated = IF updated > 0 THEN @ + updated ELSE @,
                         !.ran = {}, !.failed = {},
                         !.counts = [sh \in Shards |-> 0],
                         !.total = 0, !.q = 0]
    IN  IF r.k < Len(r.us)
        THEN [r EXCEPT !.k = @ + 1, !.pc = "getServers",
                       !.called = @ \cup {<<r.j, r.k + 1>>}]
        ELSE LET t == [r EXCEPT !.totalUsersUpdated = @ + r.usersUpdated]
             IN  IF getCurrentOffset(r.toUpdate[r.j], hour).ok
                 THEN [t EXCEPT !.pc = "logDST"]
                 ELSE NextZone([t EXCEPT !.errors = @ + 1])

\* The evaluation that is part of the broadcast the sweep is waiting for
Current(e) ==
    /\ pass.pc = "broadcast"
    /\ e[1] = pass.us[pass.k]

\* getStats() resolves and the detector loop starts.
PassGetStatsOk ==
    /\ pass.pc = "getStats"
    /\ LET timezonesInUse == popularTimezones
       IN  pass' = IF Len(timezonesInUse) = 0 THEN [pass EXCEPT !.pc = "empty"]
                   ELSE DetectorLoop([pass EXCEPT !.tzs = timezonesInUse, !.i = 1], hour)
    /\ UNCHANGED <<schedVars, members, call, fmt, event, fleet, clear, logCall, startCall>>

\* The logger call of the detector resolves and the loop goes on.
PassDetectedResolves ==
    /\ pass.pc = "logDetect"
    /\ pass' = DetectorLoop([pass EXCEPT !.toUpdate = Append(@, pass.tzs[pass.i]),
                                         !.i = @ + 1], hour)
    /\ UNCHANGED <<schedVars, members, call, fmt, event, fleet, clear, logCall, startCall>>

\* getUsersInTimezone(toUpdate[j]) resolves.
PassGetUsersResolves ==
    /\ pass.pc = "getUsers"
    /\ LET usersInTimezone == getUsersInTimezone(pass.toUpdate[pass.j])
           rec             == [pass EXCEPT !.queried = Append(@, pass.j)]
       IN  pass' = IF Len(usersInTimezone) = 0 THEN NextZone(rec)
                   ELSE [rec EXCEPT !.pc = "getServers", !.k = 1,
                                    !.us = usersInTimezone,
                                    !.called = @ \cup {<<pass.j, 1>>}]
    /\ UNCHANGED <<schedVars, members, call, fmt, event, fleet, clear, logCall, startCall>>

\* getUsersInTimezone(toUpdate[j]) rejects: the catch around the zone
\* reports it and the loop goes on with the next zone.
PassGetUsersRejects ==
    /\ pass.pc = "getUsers"
    /\ pass' = NextZone([pass EXCEPT !.queried = Append(@, pass.j),
                                     !.rejected = @ \cup {pass.j},
                                     !.errors = @ + 1])
    /\ UNCHANGED <<schedVars, members, call, fmt, event, fleet, clear, logCall, startCall>>

\* getUserServers(us[k]) resolves: without servers the call returns 0,
\* otherwise the loop is broadcast to every shard.
PassGetServersOk ==
    /\ pass.pc = "getServers"
    /\ LET userId == pass.us[pass.k]
       IN  pass' = IF Len(pass.servers[userId]) = 0 THEN PassReturned(pass, 0)
                   ELSE [pass EXCEPT
                           !.pc = "broadcast",
                           !.pending = @ \cup { <<userId, pass.toUpdate[pass.j], sh>> :
                                                   sh \in Shards },
                           !.dispatched = Append(@, <<pass.j, pass.k>>)]
    /\ UNCHANGED <<schedVars, members, call, fmt, event, fleet, clear, logCall, startCall>>

\* getUserServers(us[k]) rejects: the catch of the call reports it and the
\* call returns 0.
PassGetServersFail ==
    /\ pass.pc = "getServers"
    /\ pass' = PassReturned([pass EXCEPT !.errors = @ + 1,
                                         !.failedCalls = @ \cup {<<pass.j, pass.k>>}], 0)
    /\ UNCHANGED <<schedVars, members, call, fmt, event, fleet, clear, logCall, startCall>>

\* A shard evaluates the loop it was sent.  What it returns reaches the
\* call if the call is still waiting for the broadcast.
PassShardRuns(e) ==
    /\ e \in pass.pending
    /\ LET acc == PassShardLoop(e[1], e[2], e[3], 1,
                                [annot |-> pass.annot, applies |-> pass.applies,
                                 twice |-> pass.twice, count |-> 0])
           rec == [pass EXCEPT !.annot = acc.annot, !.applies = acc.applies,
                               !.twice = acc.twice, !.pending = @ \ {e}]
       IN  pass' = IF Current(e)
                   THEN [rec EXCEPT !.ran = @ \cup {e[3]}, !.counts[e[3]] = acc.count]
                   ELSE rec
    /\ UNCHANGED <<schedVars, members, call, fmt, event, fleet, clear, logCall, startCall>>

\* The evaluation on a shard rejects before its loop.
PassShardFails(e) ==
    /\ e \in pass.pending
    /\ Current(e)
    /\ pass' = [pass EXCEPT !.pending = @ \ {e}, !.failed = @ \cup {e[3]}]
    /\ UNCHANGED <<schedVars, members, call, fmt, event, fleet, clear, logCall, startCall>>

\* A faulty fan-out without a catch of its own and without one around the
\* call: the rejection ends the work on the zone.
PassBroadcastRejects_AbortsZone ==
    /\ pass.pc = "broadcast"
    /\ pass.failed # {}
    /\ pass' = NextZone([pass EXCEPT !.errors = @ + 1,
                                     !.failedCalls = @ \cup {<<pass.j, pass.k>>},
                                     !.ran = {}, !.failed = {}])
    /\ UNCHANGED <<schedVars, members, call, fmt, event, fleet, clear, logCall, startCall>>

\* broadcastEval rejects as soon as the evaluation on one shard rejected:
\* the catch of the call reports it and the call returns 0.
PassBroadcastRejects ==
    /\ pass.pc = "broadcast"
    /\ pass.failed # {}
    /\ pass' = PassReturned([pass EXCEPT !.errors = @ + 1,
                                         !.failedCalls = @ \cup {<<pass.j, pass.k>>}], 0)
    /\ UNCHANGED <<schedVars, members, call, fmt, event, fleet, clear, logCall, startCall>>

\* broadcastEval resolves with the results of all shards: the counts are
\* added up and the log entries of the updates are awaited one by one.
PassBroadcastResolves ==
    /\ pass.pc = "broadcast"
    /\ pass.ran = Shards
    /\ LET total == TotalCount(pass, 0)
       IN  pass' = IF total = 0 THEN PassReturned(pass, 0)
                   ELSE [pass EXCEPT !.pc = "audit", !.total = total, !.q = total]
    /\ UNCHANGED <<schedVars, members, call, fmt, event, fleet, clear, logCall, startCall>>

\* logger.logNicknameUpdate resolves.
PassAuditResolves ==
    /\ pass.pc = "audit"
    /\ pass' = IF pass.q > 1 THEN [pass EXCEPT !.q = @ - 1]
               ELSE PassReturned(pass, pass.total)
    /\ UNCHANGED <<schedVars, members, call, fmt, event, fleet, clear, logCall, startCall>>

\* logDSTChange or the summary of the sweep resolves.
PassLogResolves ==
    /\ pass.pc \in {"logDST", "logDone"}
    /\ pass' = IF pass.pc = "logDST" THEN NextZone(pass)
               ELSE [pass EXCEPT !.pc = "done"]
    /\ UNCHANGED <<schedVars, members, call, fmt, event, fleet, clear, logCall, startCall>>

\* A user whose nickname the sweep has set sets another zone whose offset
\* changes, while the sweep waits for the users of a zone, with the command
\* given in the first partition:
\* setUserTimezone replaces the row, addUserToServer adds the partition if
\* the user has none, and the command sets the nickname of the member of
\* that partition.
PassSetTimezone(userId, timezone) ==
    /\ pass.pc = "getUsers"
    /\ Cardinality(pass.moved) < MaxMoves
    /\ userId \notin pass.moved
    /\ \E a \in pass.applies : a[1] = userId
    /\ users[userId] # NoZone
    /\ timezone # users[userId]
    /\ IsValidZone(timezone)
    /\ users' = [users EXCEPT ![userId] = timezone]
    /\ pass' = [pass EXCEPT
                  !.moved = @ \cup {userId},
                  !.servers[userId] = IF Len(@) = 0 THEN <<1>> ELSE @,
                  !.annot[userId][1] = formatAnnotation(timezone, hour).label]
    /\ UNCHANGED <<hour, nick, isRunning, intervalId, initialTimeoutId, sweeps,
                   lastDone, lastCall, members, call, fmt, event, fleet, clear, logCall, startCall>>

NextPass ==
    \/ IntervalTick
    \/ \E userId \in PassUsers, timezone \in MoveZones :
          PassSetTimezone(userId, timezone)
    \/ PassGetStatsOk
    \/ PassDetectedResolves
    \/ PassGetUsersResolves
    \/ PassGetUsersRejects
    \/ PassGetServersOk
    \/ PassGetServersFail
    \/ \E e \in pass.pending : PassShardRuns(e)
    \/ \E e \in pass.pending : PassShardFails(e)
    \/ PassBroadcastResolves
    \/ PassBroadcastRejects
    \/ PassAuditResolves
    \/ PassLogResolves

SpecPass == InitPass /\ [][NextPass]_vars

----------------------------------------------------------------------------
(* Properties of a sweep and its fan-out calls *)

\* Position a comes before position b (zone first, then user)
Before(a, b) == a[1] < b[1] \/ (a[1] = b[1] /\ a[2] < b[2])

\* The detector loop is over when the first zone is worked on.
DetectorFirst ==
    (pass.queried # <<>> \/ pass.dispatched # <<>> \/ pass.pending # {})
        => pass.pc # "logDetect" /\ pass.i > Len(pass.tzs)

\* Zones are asked for in the order of the list, each once, and the
\* broadcasts are made zone after zone and user after user.
InOrder ==
    /\ \A m, n \in 1..Len(pass.queried) : m < n => pass.queried[m] < pass.queried[n]
    /\ \A m, n \in 1..Len(pass.dispatched) :
          m < n => Before(pass.dispatched[m], pass.dispatched[n])

\* While the sweep waits for a broadcast, no shard has an evaluation of an
\* earlier broadcast left to do.
OneBroadcastAtATime ==
    pass.pc = "broadcast" => \A e \in pass.pending : e[1] = pass.us[pass.k]

\* C31: within one sweep the work is strictly sequential: every detector
\* check is over before the first fan-out call begins, zones are fanned out
\* one after another, and the fan-out for a user is dispatched only after
\* the fan-out of the user before has returned with the results of all
\* shards.
C31_StrictlySequential ==
    /\ DetectorFirst
    /\ InOrder
    /\ OneBroadcastAtATime

\* C32: a fan-out call aggregates and returns only after every shard has
\* returned its result list, and nothing ends the wait: while a shard has
\* not answered, the call that sent the evaluation has not returned and the
\* sweep has not gone on or ended; the interval timer stays armed all the
\* while and begins the later sweeps.
C32_WaitsForEveryShard ==
    /\ \A e \in pass.pending : Current(e)
    /\ pass.pc \in {"audit", "logDST", "logDone", "done"} => pass.pending = {}
    /\ isRunning /\ intervalId = "armed"

\* The users of the zone at position j of the zones to update
UsersOfZone(j) == getUsersInTimezone(pass.toUpdate[j])

\* C33: a fan-out call that fails is reported and the sweep goes on with
\* the remaining users of the zone and with the remaining zones, and a
\* users query that fails is reported and costs that zone only: when the
\* sweep is over, the users of every transitioned zone were asked for, the
\* call was made for every user of every zone whose query answered, and
\* one error was reported per failure.
C33_FailureIsolated ==
    pass.pc \in {"logDone", "done"} =>
        /\ \A j \in 1..Len(pass.toUpdate) :
              /\ \E n \in 1..Len(pass.queried) : pass.queried[n] = j
              /\ j \notin pass.rejected =>
                    \A k \in 1..Len(UsersOfZone(j)) : <<j, k>> \in pass.called
        /\ pass.errors = Cardinality(pass.rejected) + Cardinality(pass.failedCalls)

\* The call for the first user of the first zone failed in the broadcast,
\* the second user of that zone and the user of the second zone were
\* fanned out for, and the sweep is over.
C33_Witness ==
    /\ pass.pc = "done"
    /\ <<1, 1>> \in pass.failedCalls
    /\ \E m, n \in 1..Len(pass.dispatched) :
          /\ pass.dispatched[m] = <<1, 1>>
          /\ pass.dispatched[n] = <<1, 2>>
    /\ \E n \in 1..Len(pass.dispatched) : pass.dispatched[n] = <<2, 1>>

\* Every setNickname call of the sweep was made by the shard that hosts the
\* partition.
ByHostingShard == \A a \in pass.applies : a[3] = ShardOf(a[2])

\* C37 as stated: within one sweep no user and partition receives a second
\* setNickname call, and every call is made by the shard that hosts the
\* partition.
C37_OneApplyPerPair ==
    /\ pass.twice = {}
    /\ ByHostingShard

\* C37: within one sweep a user and partition receives at most one
\* setNickname call, made by the shard that hosts the partition, unless the
\* user's assignment was replaced while the sweep ran; a partition is never
\* processed by a shard that does not host it.
C37_OneApplyUnlessMoved ==
    /\ \A a \in pass.twice : a[1] \in pass.moved
    /\ ByHostingShard

\* The sweep has ended after a row was replaced, and a user whose row was
\* not replaced has had the nickname set in two partitions, by two shards.
C37_Witness ==
    /\ pass.pc = "done"
    /\ pass.moved # {}
    /\ \E u \in Users \ pass.moved :
          /\ <<u, 1, ShardOf(1)>> \in pass.applies
          /\ <<u, 2, ShardOf(2)>> \in pass.applies
          /\ ShardOf(1) # ShardOf(2)

----------------------------------------------------------------------------
(* One member under the automation: the member of one guild whose nickname *)
(* is written by the user (a manual edit), by the shard's loop of a        *)
(* fan-out call for the user's zone and by the drift-correction trigger.   *)
(* Discord answers every nickname that is set with a GuildMemberUpdate     *)
(* event, which the handler of the trigger receives; event holds the       *)
(* member and the handler of the last event, call the arguments of the     *)
(* fan-out call.                                                           *)

LoopZones == {"Spring/Forward"}

\* The member as the automation finds it and no event so far.  History:
\* cause is what set the nickname the event is about ("manual", "fanout",
\* "trigger"), chain the nicknames the automation has set since the last
\* manual edit or sweep and whose event has reached the handler, stimuli
\* the manual edits and sweeps so far, outcomes the result entries of the
\* last fan-out call.
InitLoop ==
    /\ hour = FanHour
    /\ nick = [u \in Users |-> <<>>]
    /\ isRunning = FALSE
    /\ intervalId = "null"
    /\ initialTimeoutId = "undefined"
    /\ sweeps = << >>
    /\ lastDone = NoSweep
    /\ lastCall = "none"
    /\ members = << >>
    /\ fmt = NoFmt
    /\ fleet = NoFleet
    /\ pass = NoPass
    /\ clear = NoClear
    /\ logCall = NoLogCall
    /\ startCall = NoStartCall
    /\ \E userId \in FanUsers, timezone \in LoopZones, nickname \in TriggerNicks,
          owner \in BOOLEAN, manageable \in BOOLEAN, fails \in BOOLEAN :
          /\ owner => ~manageable
          /\ users = StoreOf(timezone)
          /\ call = [NewCall(userId, timezone, 1, <<>>) EXCEPT
                       !.pc = "broadcast", !.userServers = <<1>>]
          /\ event = [pc |-> "done", oldNickname |-> nickname,
                      newNickname |-> nickname, row |-> timezone,
                      userId |-> userId, owner |-> owner,
                      manageable |-> manageable, fails |-> fails,
                      looked |-> FALSE, pending |-> <<>>, calls |-> <<>>,
                      nickname |-> nickname, logged |-> <<>>,
                      cause |-> "none", chain |-> 0, stimuli |-> 0,
                      outcomes |-> <<>>]

\* The handler of the last event has set a nickname, and the event Discord
\* answers that with has not reached the handler.
EchoDue == event.pc = "done" /\ event.nickname # event.newNickname

\* The handler is entered for the event (old, new) caused by cause.
Handle(ev, old, new, cause) ==
    [ev EXCEPT !.pc = IF old # new THEN "lookup" ELSE "done",
               !.oldNickname = old, !.newNickname = new, !.nickname = new,
               !.looked = FALSE, !.pending = <<>>, !.calls = <<>>,
               !.cause = cause]

\* The user sets the nickname by hand.
ManualEdit ==
    /\ event.pc = "done"
    /\ ~EchoDue
    /\ event.stimuli < MaxRuns
    /\ \E new \in TriggerNicks \ {event.nickname} :
          event' = Handle([event EXCEPT !.chain = 0, !.stimuli = @ + 1],
                          event.nickname, new, "manual")
    /\ UNCHANGED <<schedVars, members, call, fmt, fleet, pass, clear, logCall, startCall>>

\* A sweep fans out for the user: the shard that holds the guild evaluates
\* the loop for it, and a nickname it sets comes back as an event.
SweepFansOut ==
    /\ event.pc = "done"
    /\ ~EchoDue
    /\ event.stimuli < MaxRuns
    /\ LET guild == Guild(0, TRUE, event.owner, event.manageable, event.fails,
                          event.nickname)
           acc   == ShardLoop(0, 1, [members |-> <<guild>>, results |-> <<>>,
                                     count |-> 0])
           ev    == [event EXCEPT !.stimuli = @ + 1, !.outcomes = acc.results,
                                  !.chain = acc.count]
       IN  event' = IF acc.count > 0
                    THEN Handle(ev, event.nickname, acc.members[1].nickname, "fanout")
                    ELSE ev
    /\ UNCHANGED <<schedVars, members, call, fmt, fleet, pass, clear, logCall, startCall>>

\* The event for the nickname the handler has set reaches the handler.
Echo ==
    /\ EchoDue
    /\ event' = Handle([event EXCEPT !.chain = @ + 1],
                       event.newNickname, event.nickname, "trigger")
    /\ UNCHANGED <<schedVars, members, call, fmt, fleet, pass, clear, logCall, startCall>>

NextLoop ==
    \/ ManualEdit
    \/ SweepFansOut
    \/ Echo
    \/ LookupResolves
    \/ LookupRejects
    \/ SetNicknameResolves
    \/ SetNicknameRejects
    \/ UpdateLogged

SpecLoop == InitLoop /\ [][NextLoop]_vars

----------------------------------------------------------------------------
(* Properties of the automation on one member *)

\* The handler has called setNickname for the event it is at.
HandlerCalled == event.calls # <<>>

\* The shard's loop of the last fan-out call has called setNickname.
ShardCalled ==
    \E n \in 1..Len(event.outcomes) : event.outcomes[n].status \in {"updated", "error"}

\* C34: neither the fan-out nor the drift-correction trigger ever sets the
\* nickname of a member who owns the guild or whom the bot cannot manage,
\* and a fan-out call has one outcome for such a member, a skip, and no
\* second attempt.
C34_NoWriteWithoutAuthority ==
    (event.owner \/ ~event.manageable) =>
        /\ ~HandlerCalled
        /\ ~ShardCalled
        /\ event.nickname = event.newNickname
        /\ event.cause \in {"none", "manual"}
        /\ Len(event.outcomes) <= 1
        /\ \A n \in 1..Len(event.outcomes) :
              event.outcomes[n].status =
                  IF event.owner THEN "skipped_owner" ELSE "skipped_permissions"

\* A member out of reach whose nickname lacks the annotation after a manual
\* edit: a sweep has skipped the member, and the handler of the edit has
\* looked the user up and ended.
C34_Witness ==
    /\ ~event.owner /\ ~event.manageable
    /\ event.cause = "manual"
    /\ event.pc = "done" /\ event.looked
    /\ ~hasTimezoneInfo(event.nickname) /\ event.nickname # <<>>
    /\ Len(event.outcomes) = 1

\* C35: a nickname the automation has set is never taken for drift: the
\* handler of the event caused by a nickname the fan-out or the trigger has
\* set calls setNickname no more, so that a manual edit or a sweep is
\* followed by one automated nickname at most.
C35_NoFeedback ==
    /\ event.cause \in {"fanout", "trigger"} => ~HandlerCalled
    /\ event.chain + (IF EchoDue THEN 1 ELSE 0) <= 1

----------------------------------------------------------------------------
(* The clear action: handleClearData for the user of the first row, in one *)
(* guild, next to the handler of the GuildMemberUpdate events its nickname *)
(* write causes.  The store executes the handler's query and the deletion  *)
(* in the order they reach it, which is either.                            *)

ClearZones == {"Fixed/B", "Invalid/Timezone"}

\* The user of the clear action
ClearUser == 1

\* handleClearData suspended at getUserTimezone.  History: nicknameCleared
\* as in the source, wrote the nickname it has set.
InitClear ==
    /\ hour = FanHour
    /\ nick = [u \in Users |-> <<>>]
    /\ isRunning = FALSE
    /\ intervalId = "null"
    /\ initialTimeoutId = "undefined"
    /\ sweeps = << >>
    /\ lastDone = NoSweep
    /\ lastCall = "none"
    /\ members = << >>
    /\ call = NoCall
    /\ fmt = NoFmt
    /\ fleet = NoFleet
    /\ pass = NoPass
    /\ clear = [pc |-> "getUser", pending |-> <<>>, nicknameCleared |-> FALSE,
                wrote |-> <<>>]
    /\ logCall = NoLogCall
    /\ startCall = NoStartCall
    /\ \E userId \in FanUsers, timezone \in ClearZones, nickname \in TriggerNicks,
          owner \in BOOLEAN, manageable \in BOOLEAN, fails \in BOOLEAN :
          /\ owner => ~manageable
          /\ users \in {StoreOf(timezone), StoreEmpty}
          /\ event = [pc |-> "done", oldNickname |-> nickname,
                      newNickname |-> nickname, row |-> users[ClearUser],
                      userId |-> userId, owner |-> owner,
                      manageable |-> manageable, fails |-> fails,
                      looked |-> FALSE, pending |-> <<>>, calls |-> <<>>,
                      nickname |-> nickname, logged |-> <<>>,
                      cause |-> "none", chain |-> 0, stimuli |-> 0,
                      outcomes |-> <<>>]

\* getUserTimezone answers handleClearData: without a row the action ends;
\* otherwise the annotation is taken off the display name and, unless the
\* user owns the guild or nothing was taken off, setNickname is called with
\* the clean name, or with null when that is the username.  Where no
\* nickname is to be set deleteUser is called.
ClearLooksUp ==
    /\ clear.pc = "getUser"
    /\ LET currentNickname == IF event.nickname # <<>> THEN event.nickname
                              ELSE FanUsername
           cleanNickname   == removeTimezoneFromNickname(currentNickname)
       IN  clear' =
               IF users[ClearUser] = NoZone THEN [clear EXCEPT !.pc = "noData"]
               ELSE IF ~event.owner /\ cleanNickname # currentNickname
                       /\ event.nickname # <<>>
               THEN [clear EXCEPT !.pc = "setNickname",
                                  !.pending = IF cleanNickname # FanUsername
                                              THEN cleanNickname ELSE <<>>]
               ELSE [clear EXCEPT !.pc = "delete"]
    /\ UNCHANGED <<schedVars, members, call, fmt, event, fleet, pass, logCall, startCall>>

\* getUserTimezone rejects: the outer catch of handleClearData.
ClearLookupRejects ==
    /\ clear.pc = "getUser"
    /\ clear' = [clear EXCEPT !.pc = "failed"]
    /\ UNCHANGED <<schedVars, members, call, fmt, event, fleet, pass, logCall, startCall>>

\* A faulty clear action that deletes the row before it sets the nickname
\* and does both in one step.
ClearSetNicknameResolves_DeletesFirst ==
    /\ clear.pc = "setNickname"
    /\ event.manageable
    /\ event.pc = "done" /\ ~EchoDue
    /\ users' = StoreEmpty
    /\ clear' = [clear EXCEPT !.pc = "done", !.nicknameCleared = TRUE,
                              !.wrote = Append(@, clear.pending)]
    /\ event' = [Handle(event, event.nickname, clear.pending, "clear")
                   EXCEPT !.pc = "query"]
    /\ UNCHANGED <<hour, nick, isRunning, intervalId, initialTimeoutId, sweeps,
                   lastDone, lastCall, members, call, fmt, fleet, pass, logCall, startCall>>

\* setNickname of the clear action resolves: the member has the clean
\* nickname, Discord sends the event of that change, whose handler asks
\* for the user's row, and handleClearData calls deleteUser.
ClearSetNicknameResolves ==
    /\ clear.pc = "setNickname"
    /\ event.manageable
    /\ event.pc = "done" /\ ~EchoDue
    /\ clear' = [clear EXCEPT !.pc = "delete", !.nicknameCleared = TRUE,
                              !.wrote = Append(@, clear.pending)]
    /\ event' = [Handle(event, event.nickname, clear.pending, "clear")
                   EXCEPT !.pc = "query"]
    /\ UNCHANGED <<schedVars, members, call, fmt, fleet, pass, logCall, startCall>>

\* setNickname of the clear action rejects, for the missing permission or
\* for a failure of the request (fails tells that the handler's request
\* fails, this one may): the error is kept for the reply and deleteUser is
\* called.
ClearSetNicknameRejects ==
    /\ clear.pc = "setNickname"
    /\ ~event.manageable \/ event.fails
    /\ clear' = [clear EXCEPT !.pc = "delete"]
    /\ UNCHANGED <<schedVars, members, call, fmt, event, fleet, pass, logCall, startCall>>

\* deleteUser commits: the user has no row any more.
ClearDeletes ==
    /\ clear.pc = "delete"
    /\ users' = [users EXCEPT ![ClearUser] = NoZone]
    /\ clear' = [clear EXCEPT !.pc = "done"]
    /\ UNCHANGED <<hour, nick, isRunning, intervalId, initialTimeoutId, sweeps,
                   lastDone, lastCall, members, call, fmt, event, fleet, pass, logCall, startCall>>

\* deleteUser rolls back and rejects: the outer catch of handleClearData.
ClearDeleteRejects ==
    /\ clear.pc = "delete"
    /\ clear' = [clear EXCEPT !.pc = "failed"]
    /\ UNCHANGED <<schedVars, members, call, fmt, event, fleet, pass, logCall, startCall>>

\* The store executes the query of the handler: getUserTimezone will answer
\* with the row the user has now.
LookupExecuted ==
    /\ event.pc = "query"
    /\ event' = [event EXCEPT !.pc = "lookup", !.row = users[ClearUser]]
    /\ UNCHANGED <<schedVars, members, call, fmt, fleet, pass, clear, logCall, startCall>>

\* The event for the nickname the handler has set reaches the handler,
\* which asks for the user's row.
ClearEcho ==
    /\ EchoDue
    /\ event' = [Handle([event EXCEPT !.chain = @ + 1],
                        event.newNickname, event.nickname, "trigger")
                   EXCEPT !.pc = "query"]
    /\ UNCHANGED <<schedVars, members, call, fmt, fleet, pass, clear, logCall, startCall>>

NextClear ==
    \/ ClearLooksUp
    \/ ClearLookupRejects
    \/ ClearSetNicknameResolves
    \/ ClearSetNicknameRejects
    \/ ClearDeletes
    \/ ClearDeleteRejects
    \/ LookupExecuted
    \/ ClearEcho
    \/ LookupResolves
    \/ LookupRejects
    \/ SetNicknameResolves
    \/ SetNicknameRejects
    \/ UpdateLogged

SpecClear == InitClear /\ [][NextClear]_vars

\* The display name of the member
DisplayName == IF event.nickname # <<>> THEN event.nickname ELSE FanUsername

\* C36: once the clear action has set the clean nickname and deleted the
\* assignment, and the handlers of the events this caused have ended, the
\* nickname of the user carries no annotation, whatever the order of the
\* nickname write, the deletion and the handler's lookup.
C36_ClearedStaysCleared ==
    (/\ clear.pc = "done"
     /\ clear.nicknameCleared
     /\ event.pc = "done"
     /\ ~EchoDue) => ~hasTimezoneInfo(DisplayName)

----------------------------------------------------------------------------
(* The status of the scheduler *)

\* C38: after any sequence of start, stop and timer firings isRunning is
\* true exactly when one timer is live, the pending one-shot timer or the
\* interval and never both; when isRunning is false no timer is live and
\* getStatus describes the next check as 'Not scheduled'.
C38_StatusMatchesTimers ==
    /\ isRunning <=> TimerLive
    /\ ~(initialTimeoutId = "pending" /\ intervalId = "armed")
    /\ getStatus.isRunning = isRunning
    /\ ~isRunning => /\ initialTimeoutId # "pending"
                     /\ intervalId # "armed"
                     /\ getStatus.nextCheck = "Not scheduled"
    /\ isRunning => getStatus.nextCheck # "Not scheduled"

\* The scheduler was started, its first wake began a check, and it was
\* stopped: no timer is left and the status says so.
C38_Witness ==
    /\ lastCall = "stop"
    /\ ~isRunning
    /\ initialTimeoutId = "null"
    /\ sweeps # << >>
    /\ getStatus.nextCheck = "Not scheduled"

----------------------------------------------------------------------------
(* The logger: one call of an operation of src/utils/logger.js, with the    *)
(* configuration, the client and the webhook as they may be.               *)

\* The operations and the channel each sends to
LogOps == {"log", "error", "logCommand", "logTimezoneSet", "logNicknameUpdate",
           "logDSTChange", "logPermissionError"}

ToErrorChannel == {"error", "logPermissionError"}

\* log and error take the message from the caller, who may give none; the
\* others build a string.
TakesMessage == {"log", "error"}

\* clientProvider.getClient() throws without a client; a client that was
\* not spawned by a sharding manager has no shard property.
Clients == {"missing", "unsharded", "sharded"}

\* The webhook: no URL configured, fetch rejects, the response is not ok, or
\* it is (204).
Webhooks == {"unset", "rejects", "notOk", "ok"}

\* What an operation resolves with: null or the id of a message
Null == [kind |-> "null"]

\* The id of the message a shard has sent
MessageId(sh) == [kind |-> "id", shard |-> sh]

MessageIds == { MessageId(sh) : sh \in Shards }

InitLog ==
    /\ hour = 0
    /\ users = StoreEmpty
    /\ nick = [u \in Users |-> <<>>]
    /\ isRunning = FALSE
    /\ intervalId = "null"
    /\ initialTimeoutId = "undefined"
    /\ sweeps = << >>
    /\ lastDone = NoSweep
    /\ lastCall = "none"
    /\ members = << >>
    /\ call = NoCall
    /\ fmt = NoFmt
    /\ event = NoEvent
    /\ fleet = NoFleet
    /\ pass = NoPass
    /\ clear = NoClear
    /\ startCall = NoStartCall
    /\ \E op \in LogOps, given \in BOOLEAN, logChannel \in BOOLEAN,
          errorChannel \in BOOLEAN, client \in Clients, webhook \in Webhooks :
          /\ op \notin TakesMessage => given
          /\ logCall = [pc |-> "called", op |-> op, messageOptions |-> given,
                        logChannel |-> logChannel, errorChannel |-> errorChannel,
                        client |-> client, webhook |-> webhook,
                        result |-> [sh \in {} |-> FALSE], settled |-> "pending",
                        value |-> Null, path |-> <<>>]

\* The promise of the operation resolves with v.
Resolve(rec, v, step) ==
    [rec EXCEPT !.pc = "settled", !.settled = "resolved", !.value = v,
                !.path = Append(@, step)]

\* The promise of the operation rejects.
Reject(rec, step) ==
    [rec EXCEPT !.pc = "settled", !.settled = "rejected",
                !.path = Append(@, step)]

\* config.get of the channel of the operation: undefined when not set
ChannelSet(rec) ==
    IF rec.op \in ToErrorChannel THEN rec.errorChannel ELSE rec.logChannel

\* The operation is called and runs to its first await: log and error
\* return null without a message, sendTo returns null without a channel
\* id; without a client sendWebhook is called, which returns null without
\* a URL and otherwise awaits fetch; with a client the send is broadcast to
\* the shards.  A client without shard throws in the try of sendTo.
LogCalled ==
    /\ logCall.pc = "called"
    /\ logCall' =
          IF ~logCall.messageOptions THEN Resolve(logCall, Null, "noMessage")
          ELSE IF ~ChannelSet(logCall) THEN Resolve(logCall, Null, "noChannel")
          ELSE CASE logCall.client = "missing" ->
                      IF logCall.webhook = "unset"
                      THEN Resolve(logCall, Null, "noWebhook")
                      ELSE [logCall EXCEPT !.pc = "fetch"]
                 [] logCall.client = "unsharded" ->
                      Resolve(logCall, Null, "caught")
                 [] OTHER -> [logCall EXCEPT !.pc = "broadcast"]
    /\ UNCHANGED <<schedVars, members, call, fmt, event, fleet, pass, clear, startCall>>

\* fetch of the webhook settles: sendWebhook returns null after a
\* rejection or a response that is not ok and whether the status is 204
\* otherwise; sendTo returns null after it.
WebhookSettles ==
    /\ logCall.pc = "fetch"
    /\ logCall' = Resolve(logCall, Null,
                          CASE logCall.webhook = "rejects" -> "webhookRejected"
                            [] logCall.webhook = "notOk"   -> "webhookNotOk"
                            [] OTHER                       -> "webhookSent")
    /\ UNCHANGED <<schedVars, members, call, fmt, event, fleet, pass, clear, startCall>>

\* A shard evaluates the send: false without the channel in its cache or
\* when channel.send rejects (sent = FALSE), the id of the message
\* otherwise.
LogShardAnswers(sh, sent) ==
    /\ logCall.pc = "broadcast"
    /\ sh \notin DOMAIN logCall.result
    /\ logCall' = [logCall EXCEPT
                     !.result = [x \in DOMAIN @ \cup {sh} |->
                                   IF x = sh THEN sent ELSE @[x]]]
    /\ UNCHANGED <<schedVars, members, call, fmt, event, fleet, pass, clear, startCall>>

\* The first shard, by its number, that has sent the message
RECURSIVE FindFrom(_, _)
FindFrom(result, sh) ==
    IF sh \notin DOMAIN result THEN Null
    ELSE IF result[sh] THEN MessageId(sh)
    ELSE FindFrom(result, sh + 1)

\* broadcastEval resolves with the answers of all shards: the first id
\* that is not false, or null.
LogBroadcastResolves ==
    /\ logCall.pc = "broadcast"
    /\ DOMAIN logCall.result = Shards
    /\ logCall' = Resolve(logCall, FindFrom(logCall.result, 0), "broadcast")
    /\ UNCHANGED <<schedVars, members, call, fmt, event, fleet, pass, clear, startCall>>

\* A faulty sendTo without the try around the broadcast: the rejection is
\* the rejection of the operation.
LogBroadcastRejects_NoCatch ==
    /\ logCall.pc = "broadcast"
    /\ logCall' = Reject(logCall, "broadcastRejected")
    /\ UNCHANGED <<schedVars, members, call, fmt, event, fleet, pass, clear, startCall>>

\* broadcastEval rejects (a shard died, the shards are still being
\* spawned): the catch of sendTo reports it and returns null.
LogBroadcastRejects ==
    /\ logCall.pc = "broadcast"
    /\ logCall' = Resolve(logCall, Null, "broadcastRejected")
    /\ UNCHANGED <<schedVars, members, call, fmt, event, fleet, pass, clear, startCall>>

NextLog ==
    \/ LogCalled
    \/ WebhookSettles
    \/ \E sh \in Shards, sent \in BOOLEAN : LogShardAnswers(sh, sent)
    \/ LogBroadcastResolves
    \/ LogBroadcastRejects

SpecLog == InitLog /\ [][NextLog]_vars

\* C39: every logger operation resolves, with the id of a message or with
\* null, and never rejects: not without a client, not without a channel
\* id, not when the broadcast to the shards rejects and not when the
\* webhook fails.
C39_LoggerNeverRejects ==
    /\ logCall.settled # "rejected"
    /\ logCall.pc = "settled" =>
          /\ logCall.settled = "resolved"
          /\ logCall.value \in MessageIds \cup {Null}
          /\ logCall.value # Null =>
                /\ logCall.path = <<"broadcast">>
                /\ logCall.result[logCall.value.shard]

\* A call of one of the five operations with a client has settled after the
\* broadcast rejected.
C39_Witness ==
    /\ logCall.pc = "settled"
    /\ logCall.op = "logNicknameUpdate"
    /\ logCall.path = <<"broadcastRejected">>
    /\ logCall.value = Null

----------------------------------------------------------------------------
(* The delay of the one-shot timer: start() called at some instant of the   *)
(* hour, read from the clock of the host once (now).                       *)

SecondsPerMinute == 60

MsPerSecond == 1000

MsPerHour == MinutesPerHour * SecondsPerMinute * MsPerSecond

\* The seconds and the milliseconds start() is called at: the first two and
\* the last of each
StartSeconds == {0, 1, SecondsPerMinute - 1}

StartMillis == {0, 1, MsPerSecond - 1}

\* A faulty delay that is taken modulo the hour: none at a boundary.
msUntilNextHour_Modulo(now) ==
    ((MinutesPerHour - now.minutes) * SecondsPerMinute * MsPerSecond
        - now.seconds * MsPerSecond - now.milliseconds) % MsPerHour

\* (60 - now.getMinutes()) * 60 * 1000 - now.getSeconds() * 1000
\*                                     - now.getMilliseconds()
msUntilNextHour(now) ==
    (MinutesPerHour - now.minutes) * SecondsPerMinute * MsPerSecond
        - now.seconds * MsPerSecond - now.milliseconds

\* The clock of the host ms milliseconds after it showed now; hours counts
\* the hour boundaries passed in between.
ClockAfter(now, ms) ==
    LET total == (now.minutes * SecondsPerMinute + now.seconds) * MsPerSecond
                     + now.milliseconds + ms
    IN  [hours        |-> total \div MsPerHour,
         minutes      |-> (total \div (SecondsPerMinute * MsPerSecond)) % MinutesPerHour,
         seconds      |-> (total \div MsPerSecond) % SecondsPerMinute,
         milliseconds |-> total % MsPerSecond]

InitDelay ==
    /\ hour = 0
    /\ users = StoreEmpty
    /\ nick = [u \in Users |-> <<>>]
    /\ isRunning = FALSE
    /\ intervalId = "null"
    /\ initialTimeoutId = "undefined"
    /\ sweeps = << >>
    /\ lastDone = NoSweep
    /\ lastCall = "none"
    /\ members = << >>
    /\ call = NoCall
    /\ fmt = NoFmt
    /\ event = NoEvent
    /\ fleet = NoFleet
    /\ pass = NoPass
    /\ clear = NoClear
    /\ logCall = NoLogCall
    /\ \E minutes \in 0..(MinutesPerHour - 1), seconds \in StartSeconds,
          milliseconds \in StartMillis :
          startCall = [pc |-> "called",
                       now |-> [minutes |-> minutes, seconds |-> seconds,
                                milliseconds |-> milliseconds]]

\* start() on a service that is not running: the one-shot timer is set
\* with the delay computed from now, and isRunning is set.
StartSchedules ==
    /\ startCall.pc = "called"
    /\ ~isRunning
    /\ startCall' = [pc |-> "scheduled", now |-> startCall.now,
                     delay |-> msUntilNextHour(startCall.now)]
    /\ initialTimeoutId' = "pending"
    /\ isRunning' = TRUE
    /\ lastCall' = "start"
    /\ UNCHANGED <<hour, users, nick, intervalId, sweeps, lastDone>>
    /\ UNCHANGED <<members, call, fmt, event, fleet, pass, clear, logCall>>

\* The one-shot timer fires when its delay has passed: the first check is
\* begun and the interval is set, as in FirstWake; woke is what the clock
\* shows then.
OneShotFires ==
    /\ startCall.pc = "scheduled"
    /\ initialTimeoutId = "pending"
    /\ startCall' = [pc |-> "fired", now |-> startCall.now,
                     delay |-> startCall.delay,
                     woke |-> ClockAfter(startCall.now, startCall.delay)]
    /\ hour' = hour + ClockAfter(startCall.now, startCall.delay).hours
    /\ sweeps' = Put(hour', NewSweep(hour', "timeout"))
    /\ intervalId' = "armed"
    /\ initialTimeoutId' = "fired"
    /\ lastCall' = "none"
    /\ UNCHANGED <<users, nick, isRunning, lastDone>>
    /\ UNCHANGED <<members, call, fmt, event, fleet, pass, clear, logCall>>

NextDelay ==
    \/ StartSchedules
    \/ OneShotFires

SpecDelay == InitDelay /\ [][NextDelay]_vars

\* start() was called at an hour boundary of the clock
OnBoundary(now) == now.minutes = 0 /\ now.seconds = 0 /\ now.milliseconds = 0

\* C40: for every instant start() is called at, the delay of the one-shot
\* timer is more than 0 and at most 3,600,000 ms, the clock shows an exact
\* hour (minutes, seconds and milliseconds zero) when the delay has passed,
\* which is the next one, and a start at an hour boundary waits one hour.
C40_DelayToNextBoundary ==
    /\ startCall.pc \in {"scheduled", "fired"} =>
          /\ startCall.delay > 0
          /\ startCall.delay <= 3600000
          /\ OnBoundary(ClockAfter(startCall.now, startCall.delay))
          /\ ClockAfter(startCall.now, startCall.delay).hours = 1
          /\ OnBoundary(startCall.now) => startCall.delay = 3600000
    /\ startCall.pc = "fired" => OnBoundary(startCall.woke) /\ hour = 1

\* start() was called at an hour boundary and the timer has fired one hour
\* later.
C40_Witness ==
    /\ startCall.pc = "fired"
    /\ OnBoundary(startCall.now)
    /\ startCall.delay = 3600000
    /\ OnBoundary(startCall.woke)

====
